---- MODULE Spec2Model ----
(***************************************************************************)
(* Model of the synchronization orchestrator of ZKTBiometricUpdater:       *)
(* BiometricSyncService (core/services/BiometricSyncService.js) driving    *)
(* the BiometricDeviceManager registry, ZKTecoAdapter device handles and   *)
(* the FirebirdAdapter sink.  One action per awaited call of the service;  *)
(* the driver calls (zklib, node-firebird) resolve or fail                 *)
(* nondeterministically, within a budget of injected failures.             *)
(***************************************************************************)
EXTENDS Integers, Sequences, FiniteSets, TLC

\* ------------------------------------------------------------------ bounds
\* Number of Sync passes one run of the model performs.
MaxPasses == 2
\* Number of driver failures (device or sink) injected over one run.
MaxFaults == 2
\* Longest attendance log a terminal returns.
MaxLog == 2
\* Clock ticks per calendar day: the resolution of the time of day.
TicksPerDay == 2
\* Last calendar day of the windows and punches the date filter is applied to.
MaxDay == 2
\* Number of adapter objects the registry constructs over one run.
MaxHandles == 2
\* Longest devices array of a configuration file given to validateConfig.
MaxEntries == 2

\* ------------------------------------------------------------- identifiers
\* devices.json: the configured endpoints, one of them disabled.
DevicesFile ==
    <<[id |-> "d1", enabled |-> TRUE],
      [id |-> "d2", enabled |-> TRUE],
      [id |-> "dx", enabled |-> FALSE]>>

\* Config.loadDevicesFromFile: the disabled endpoints are filtered out; what is
\* left is registered, in the order of the file.
loadDevicesFromFile(file) ==
    LET enabled(d) == d.enabled
        enabledDevices == SelectSeq(file, enabled)
    IN  [i \in 1..Len(enabledDevices) |-> enabledDevices[i].id]

DisabledIds == {DevicesFile[i].id : i \in {j \in 1..Len(DevicesFile) : ~DevicesFile[j].enabled}}

\* The device ids of the configuration, in registration order, and an id that
\* has no configuration entry in the registry: to the registry, which only gets
\* what the loader kept, the disabled endpoint of the file is such an id.
RegisteredIds == loadDevicesFromFile(DevicesFile)
UnknownId == "dx"
NoId == ""
AllIds == {RegisteredIds[i] : i \in 1..Len(RegisteredIds)} \cup {UnknownId}
\* The device a single-device service is constructed on.
SingleId == "d1"

\* error.message of the failures
ErrConfigNotFound == "Device configuration not found"
ErrUnsupportedType == "Hikvision adapter not implemented yet"
ErrConnect == "zklib connect error"
ErrRetrieve == "zklib getAttendance error"
ErrDevDisconnect == "zklib disconnect error"
ErrDevNotConnected == "Device not connected"
ErrAttach == "firebird attach error"
ErrDetach == "firebird detach error"
ErrQuery == "firebird query error"
ErrDbNotConnected == "Database not connected"
ErrReference == "deviceInfo is not defined"
NoError == ""

\* ----------------------------------------------------------------- helpers
Range(s) == {s[i] : i \in 1..Len(s)}

SeqsUpTo(S, n) == UNION {[1..k -> S] : k \in 0..n}

RECURSIVE SelectSeqBy(_, _)
\* Array.prototype.filter with the predicate given as a set of kept elements
SelectSeqBy(s, keep) ==
    IF s = <<>> THEN <<>>
    ELSE IF Head(s) \in keep THEN <<Head(s)>> \o SelectSeqBy(Tail(s), keep)
         ELSE SelectSeqBy(Tail(s), keep)

\* ------------------------------------------------------- clock and records
\* moment(t).format('YYYY-MM-DD'): the calendar day of a tick
FormatDate(t) == t \div TicksPerDay

\* moment(t).format('YYYY-MM-DD HH:mm:ss'): the day and the time of day
FormatDateTime(t) == <<t \div TicksPerDay, t % TicksPerDay>>

\* record.timeRecord.split(' ')[0]
SplitDate(timeRecord) == timeRecord[1]

\* DateUtils.getDateRange: start and end of a calendar day
getDateRange(day) == <<day * TicksPerDay, day * TicksPerDay + (TicksPerDay - 1)>>

\* The date windows the callers of the model pass to Sync.
Windows == {getDateRange(0)}

\* What zklib's getAttendance yields: punches in chronological order, the k-th
\* one of employee k, made at the first or the last instant of day 0 or at the
\* start of day 1 (the filter is run over every instant in FilterSpec).
PunchTicks == {0, TicksPerDay - 1, TicksPerDay}
RawLogs ==
    {[k \in 1..Len(ts) |-> [uid |-> k, timestamp |-> ts[k]]] :
        ts \in {s \in SeqsUpTo(PunchTicks, MaxLog) :
                    \A i \in 1..Len(s) : \A j \in 1..Len(s) : i < j => s[i] < s[j]}}

NoRecord == [employeeNumber |-> 0, timeRecord |-> <<0, 0>>, location |-> NoId]

\* Variant of formattedLogs that yields the records in reverse order.
formattedLogsReversed(id, data) ==
    [k \in 1..Len(data) |->
        [employeeNumber |-> data[Len(data) + 1 - k].uid,
         timeRecord |-> FormatDateTime(data[Len(data) + 1 - k].timestamp),
         location |-> id]]

\* ZKTecoAdapter.getAttendanceData, the callback body: format, then filter by
\* the date portion of the record against the window's date strings.
formattedLogs(id, data) ==
    [k \in 1..Len(data) |->
        [employeeNumber |-> data[k].uid,
         timeRecord |-> FormatDateTime(data[k].timestamp),
         location |-> id]]

\* Variant of filteredLogs that compares the instants, not the calendar days.
filteredLogsByInstant(id, data, from, to) ==
    LET keep == {k \in 1..Len(data) : data[k].timestamp >= from /\ data[k].timestamp <= to}
    IN  SelectSeqBy(formattedLogs(id, data), {formattedLogs(id, data)[k] : k \in keep})

filteredLogs(id, data, from, to) ==
    LET logs == formattedLogs(id, data)
        keep == {r \in Range(logs) :
                    /\ SplitDate(r.timeRecord) >= FormatDate(from)
                    /\ SplitDate(r.timeRecord) <= FormatDate(to)}
    IN  SelectSeqBy(logs, keep)

\* --------------------------------------------------------------- adapters
\* ZKTecoAdapter: isConnected and whether this.device holds a ZKLib object.
NewAdapter == [isConnected |-> FALSE, device |-> FALSE]

\* ZKTecoAdapter.connect; ok is the outcome of zklib's connect callback.
ZkConnectCallsDriver(a) == ~a.isConnected
\* Variant of ZkConnect that rejects on an adapter that is connected already.
ZkConnectRejectsWhenConnected(a, ok) ==
    IF a.isConnected THEN [adapter |-> a, resolved |-> FALSE]
    ELSE IF ok THEN [adapter |-> [isConnected |-> TRUE, device |-> TRUE], resolved |-> TRUE]
    ELSE [adapter |-> [isConnected |-> FALSE, device |-> TRUE], resolved |-> FALSE]
ZkConnect(a, ok) ==
    IF a.isConnected THEN [adapter |-> a, resolved |-> TRUE]
    ELSE IF ok THEN [adapter |-> [isConnected |-> TRUE, device |-> TRUE], resolved |-> TRUE]
    ELSE [adapter |-> [isConnected |-> FALSE, device |-> TRUE], resolved |-> FALSE]

\* ZKTecoAdapter.disconnect; ok is the outcome of zklib's disconnect callback.
ZkDisconnectCallsDriver(a) == a.isConnected /\ a.device
\* Variant of ZkDisconnect that resolves and leaves the adapter as it is.
ZkDisconnectLeavesConnected(a, ok) == [adapter |-> a, resolved |-> TRUE]
ZkDisconnect(a, ok) ==
    IF ~a.isConnected \/ ~a.device
    THEN [adapter |-> [a EXCEPT !.isConnected = FALSE], resolved |-> TRUE]
    ELSE IF ok THEN [adapter |-> [isConnected |-> FALSE, device |-> FALSE], resolved |-> TRUE]
    ELSE [adapter |-> a, resolved |-> FALSE]

\* ZKTecoAdapter.getAttendanceData's guard
ZkCanRetrieve(a) == a.isConnected /\ a.device

\* Variant of ZkGetDeviceInfo that rejects on a disconnected adapter, as
\* getAttendanceData does.
ZkGetDeviceInfoNeedsConnection(a, id) ==
    [resolved |-> ZkCanRetrieve(a), id |-> IF ZkCanRetrieve(a) THEN id ELSE NoId,
     connected |-> ZkCanRetrieve(a)]
\* ZKTecoAdapter.getDeviceInfo over an adapter whose config.id is id: resolves
\* with the configured fields, and with connected: true as well when connected
ZkGetDeviceInfo(a, id) ==
    IF ~ZkCanRetrieve(a)
    THEN [resolved |-> TRUE, id |-> id, connected |-> FALSE]
    ELSE [resolved |-> TRUE, id |-> id, connected |-> a.isConnected]

\* FirebirdAdapter.connect / disconnect / executeQuery over this.connection
FbConnectCallsDriver(conn) == ~conn
FbConnect(conn, ok) ==
    IF conn THEN [connection |-> conn, resolved |-> TRUE]
    ELSE IF ok THEN [connection |-> TRUE, resolved |-> TRUE]
    ELSE [connection |-> FALSE, resolved |-> FALSE]

FbDisconnectCallsDriver(conn) == conn
\* Variant of FbDisconnect that forgets the connection when the detach fails.
FbDisconnectForgetsOnFailure(conn, ok) ==
    IF ~conn THEN [connection |-> conn, resolved |-> TRUE]
    ELSE [connection |-> FALSE, resolved |-> ok]
FbDisconnect(conn, ok) ==
    IF ~conn THEN [connection |-> conn, resolved |-> TRUE]
    ELSE IF ok THEN [connection |-> FALSE, resolved |-> TRUE]
    ELSE [connection |-> conn, resolved |-> FALSE]

FbExecuteQueryCallsDriver(conn) == conn
FbExecuteQuery(conn, ok) ==
    IF ~conn THEN [resolved |-> FALSE, error |-> ErrDbNotConnected]
    ELSE IF ok THEN [resolved |-> TRUE, error |-> NoError]
    ELSE [resolved |-> FALSE, error |-> ErrQuery]

\* --------------------------------------------------------------- registry
\* The device types: the ones BiometricDeviceFactory.create constructs an
\* adapter for, one it throws for, and the type of a configuration that names
\* none (device.type || 'zkteco' in the loader, autoDetectType in getDevice).
SupportedTypes == {"zkteco", "zklib"}
UnsupportedType == "hikvision"
DefaultType == "zkteco"
DeviceTypes == {DefaultType, UnsupportedType}

\* BiometricDeviceFactory.create: an adapter, or a throw
factoryCreates(type) == type \in SupportedTypes

VARIABLE
    configType       \* BiometricDeviceManager.deviceConfigs: id -> config.type

\* Variant of getDevice that constructs an adapter at every call.
getDeviceAlwaysConstructs(cache, configs, id) ==
    IF id \notin Range(configs)
    THEN [found |-> FALSE, devices |-> cache, constructed |-> FALSE,
          error |-> ErrConfigNotFound]
    ELSE [found |-> TRUE, devices |-> (id :> NewAdapter) @@ cache, constructed |-> TRUE,
          error |-> NoError]

\* Variant of getDevice that constructs a ZKTeco adapter whatever the type.
getDeviceOfAnyType(cache, configs, id) ==
    IF id \in DOMAIN cache
    THEN [found |-> TRUE, devices |-> cache, constructed |-> FALSE, error |-> NoError]
    ELSE IF id \notin Range(configs)
    THEN [found |-> FALSE, devices |-> cache, constructed |-> FALSE,
          error |-> ErrConfigNotFound]
    ELSE [found |-> TRUE, devices |-> (id :> NewAdapter) @@ cache, constructed |-> TRUE,
          error |-> NoError]

\* BiometricDeviceManager.getDevice over (devices, deviceConfigs): the cached
\* adapter; else a throw when there is no configuration entry or the factory
\* has no adapter for its type, and nothing is cached; else a new adapter
getDevice(cache, configs, id) ==
    IF id \in DOMAIN cache
    THEN [found |-> TRUE, devices |-> cache, constructed |-> FALSE, error |-> NoError]
    ELSE IF id \notin Range(configs)
    THEN [found |-> FALSE, devices |-> cache, constructed |-> FALSE,
          error |-> ErrConfigNotFound]
    ELSE IF ~factoryCreates(configType[id])
    THEN [found |-> FALSE, devices |-> cache, constructed |-> FALSE,
          error |-> ErrUnsupportedType]
    ELSE [found |-> TRUE, devices |-> (id :> NewAdapter) @@ cache, constructed |-> TRUE,
          error |-> NoError]

RECURSIVE constructedBy(_, _, _)
\* the ids for which the getDevice calls of a loop over ids construct an adapter
constructedBy(cache, configs, ids) ==
    IF ids = <<>> THEN <<>>
    ELSE LET r == getDevice(cache, configs, Head(ids))
         IN  IF ~r.found THEN <<>>
             ELSE (IF r.constructed THEN <<Head(ids)>> ELSE <<>>)
                  \o constructedBy(r.devices, configs, Tail(ids))

RECURSIVE mapGetDeviceFrom(_, _, _, _)
mapGetDeviceFrom(cache, configs, ids, done) ==
    IF ids = <<>> THEN [found |-> TRUE, devices |-> cache, list |-> done, error |-> NoError]
    ELSE LET r == getDevice(cache, configs, Head(ids))
         IN  IF r.found
             THEN mapGetDeviceFrom(r.devices, configs, Tail(ids), Append(done, Head(ids)))
             ELSE [found |-> FALSE, devices |-> r.devices, list |-> <<>>, error |-> r.error]

RECURSIVE skipUnknownFrom(_, _, _, _)
skipUnknownFrom(cache, configs, ids, done) ==
    IF ids = <<>> THEN [found |-> TRUE, devices |-> cache, list |-> done, error |-> NoError]
    ELSE LET r == getDevice(cache, configs, Head(ids))
         IN  IF r.found
             THEN skipUnknownFrom(r.devices, configs, Tail(ids), Append(done, Head(ids)))
             ELSE skipUnknownFrom(cache, configs, Tail(ids), done)

\* Variant of mapGetDevice that skips an id with no configuration entry.
mapGetDeviceSkippingUnknown(cache, configs, ids) == skipUnknownFrom(cache, configs, ids, <<>>)

\* Variant of mapGetDevice that resolves an id named several times once.
RECURSIVE withoutRepeats(_, _)
withoutRepeats(ids, done) ==
    IF ids = <<>> THEN done
    ELSE withoutRepeats(Tail(ids),
                        IF \E i \in 1..Len(done) : done[i] = Head(ids)
                        THEN done ELSE Append(done, Head(ids)))
mapGetDeviceOnce(cache, configs, ids) ==
    mapGetDeviceFrom(cache, configs, withoutRepeats(ids, <<>>), <<>>)

\* idsArray.map(id => getDevice(id)), and getAllDevices' loop: left to right,
\* the first id that throws ends it and no list is produced
mapGetDevice(cache, configs, ids) == mapGetDeviceFrom(cache, configs, ids, <<>>)

\* The deviceIds argument of syncAttendanceData: null, or a list of ids, here
\* of at most as many ids as there are registered devices.
NullIds == [given |-> FALSE, list |-> <<>>]
DeviceIdInputs ==
    {NullIds} \cup {[given |-> TRUE, list |-> l] : l \in SeqsUpTo(AllIds, Len(RegisteredIds))}

\* ------------------------------------------------------------ result types
NewStats == [totalRecords |-> 0, insertedRecords |-> 0, errors |-> <<>>, deviceStats |-> <<>>]
NewDeviceStats == [totalRecords |-> 0, insertedRecords |-> 0, errors |-> <<>>]

\* error entries: {record, error}, {deviceId, error, type}, {error, type}, {error}
RecordError(rec, msg) == [type |-> "record_error", deviceId |-> NoId, record |-> rec, error |-> msg]
DeviceSyncErrorEntry(id, msg) == [type |-> "device_sync_error", deviceId |-> id, record |-> NoRecord, error |-> msg]
GeneralError(msg) == [type |-> "general_error", deviceId |-> NoId, record |-> NoRecord, error |-> msg]
PlainError(msg) == [type |-> "error", deviceId |-> NoId, record |-> NoRecord, error |-> msg]

\* One call made by the pass, as recorded in the history of the pass.
Event(op, id, ok) == [op |-> op, dev |-> id, ok |-> ok, rec |-> NoRecord]
WriteEvent(id, rec, ok) == [op |-> "write", dev |-> id, ok |-> ok, rec |-> rec]

\* A call on the registry and what it gave back: the adapter objects returned
\* (as serial numbers), whether it threw, and the boolean it returned if it
\* returns one.
Call(op, id, handles, threw) ==
    [op |-> op, id |-> id, handles |-> handles, threw |-> threw, result |-> FALSE]
CallReturning(op, id, value) == [Call(op, id, <<>>, FALSE) EXCEPT !.result = value]
NoCall == Call("none", NoId, <<>>, FALSE)

\* validate-config.js has not been run: no file, no result.
NoFile == [kind |-> "none", devices |-> <<>>]
NotValidated ==
    [done |-> FALSE, threw |-> FALSE, valid |-> TRUE, errors |-> <<>>, warnings |-> <<>>,
     devices |-> [total |-> 0, enabled |-> 0, disabled |-> 0]]

\* The local state of a Sync call that has not started.
NewFrame ==
    [pc |-> "idle", deviceIds |-> NullIds, fromDate |-> 0, toDate |-> 0,
     devicesToSync |-> <<>>, devIdx |-> 1, stats |-> NewStats, devStats |-> NewDeviceStats,
     attendanceData |-> <<>>, recIdx |-> 1, ckIdx |-> 1, error |-> NoError, trace |-> <<>>]

\* ------------------------------------------------------------------ state
VARIABLES
    isMultiDevice,   \* BiometricSyncService.isMultiDevice
    deviceConfigs,   \* BiometricDeviceManager.deviceConfigs: ids in insertion order
    devices,         \* BiometricDeviceManager.devices: id -> adapter (single-device
                     \* mode: the one adapter the service was constructed on)
    orphans,         \* ids of adapters dropped from the cache while still connected
    connection,      \* FirebirdAdapter.connection is non-null
    lastSync,        \* BIOMETRICDEVICES.DATELASTUPDATED per device id (0: never)
    passNo,          \* number of calls made on the service so far; the clock of new Date()
    faults,          \* driver failures injected so far
    pc,              \* where the running Sync call is suspended
    deviceIds,       \* argument of the running call
    fromDate,
    toDate,
    devicesToSync,   \* resolved devices, as the ids of their cached adapters
    devIdx,          \* position of the per-device loop
    stats,           \* syncMultipleDevices' stats
    devStats,        \* syncDeviceData's deviceStats
    attendanceData,  \* syncDeviceData's attendanceData
    recIdx,          \* position of the per-record loop
    ckIdx,           \* position of updateAllDevicesLastSync's loop
    error,           \* the exception in flight, or thrown by the call
    trace,           \* history of the pass: the calls made on devices and sink
    rawLog,          \* the log zklib's getAttendance hands to the adapter's callback
    testResults,     \* what testAllConnections resolved with, until the next call
    unreachable,     \* the devices that did not answer a connect during that test
    handle,          \* RegistrySpec: id -> the adapter object cached in devices, as
                     \* the serial number of its construction and its this.config
    created,         \* RegistrySpec: number of adapter objects constructed so far
    got,             \* RegistrySpec: id -> the objects getDevice(id) returned since
                     \* the cache entry of id was last dropped
    lastCall,        \* RegistrySpec: the latest call on the registry or on one of
                     \* its adapters, and its result
    configAddr,      \* RegistrySpec: id -> the address of its configuration entry
    suspended,       \* ConcSpec: the frame of the Sync call that is not running
    configFile,      \* ValidateSpec: the parsed file validate-config.js is run on
    validation       \* ValidateSpec: what validateConfig returned for it

registryVars == <<isMultiDevice, deviceConfigs, devices, orphans>>
sinkVars == <<connection, lastSync>>
argVars == <<deviceIds, fromDate, toDate>>
frameVars == <<devStats, attendanceData, recIdx>>
testVars == <<testResults, unreachable>>
inputVars == <<rawLog, configFile, validation>>
handleVars == <<handle, created, got, lastCall, configAddr, configType>>
vars == <<isMultiDevice, deviceConfigs, devices, orphans, connection, lastSync,
          passNo, faults, pc, deviceIds, fromDate, toDate, devicesToSync, devIdx,
          stats, devStats, attendanceData, recIdx, ckIdx, error, trace,
          rawLog, testResults, unreachable, handle, created, got, lastCall,
          configAddr, configType, suspended, configFile, validation>>

\* BiometricUpdaterApp.initialize: the registry holds the configured endpoints,
\* no adapter exists yet, nothing is connected.  A single-device service is
\* constructed on one adapter, without a registry.
Init ==
    /\ isMultiDevice \in BOOLEAN
    /\ deviceConfigs = IF isMultiDevice THEN RegisteredIds ELSE <<>>
    /\ devices = IF isMultiDevice THEN <<>> ELSE (SingleId :> NewAdapter)
    /\ orphans = {}
    /\ connection = FALSE
    /\ lastSync = [id \in AllIds |-> 0]
    /\ passNo = 0
    /\ faults = 0
    /\ pc = "idle"
    /\ deviceIds = NullIds
    /\ fromDate = 0
    /\ toDate = 0
    /\ devicesToSync = <<>>
    /\ devIdx = 1
    /\ stats = NewStats
    /\ devStats = NewDeviceStats
    /\ attendanceData = <<>>
    /\ recIdx = 1
    /\ ckIdx = 1
    /\ error = NoError
    /\ trace = <<>>
    /\ rawLog = <<>>
    /\ configFile = NoFile
    /\ validation = NotValidated
    /\ testResults = <<>>
    /\ unreachable = {}
    /\ handle = <<>>
    /\ created = 0
    /\ got = [id \in AllIds |-> {}]
    /\ lastCall = NoCall
    /\ configAddr = [id \in Range(deviceConfigs) |-> 1]
    /\ configType = [id \in Range(deviceConfigs) |-> DefaultType]
    /\ suspended = NewFrame

\* The outcomes a driver call can have: failure only within the budget.
Outcomes(callsDriver) == IF callsDriver /\ faults < MaxFaults THEN BOOLEAN ELSE {TRUE}
Charge(ok) == IF ok THEN faults ELSE faults + 1

Idle == pc \in {"idle", "returned", "thrown"}
CurrentId == devicesToSync[devIdx]

\* ------------------------------------------------------ Sync: entry points
\* syncMultipleDevices, lines 36-58: fresh stats, then the device set.
SyncMultipleDevices(ids, w) ==
    /\ isMultiDevice
    /\ Idle
    /\ passNo < MaxPasses
    /\ LET requested == IF ids.given THEN ids.list ELSE deviceConfigs
           r == mapGetDevice(devices, deviceConfigs, requested)
       IN  /\ devices' = r.devices
           /\ devicesToSync' = r.list
           /\ pc' = IF r.found THEN "dbConnect" ELSE "catch"
           /\ error' = IF r.found THEN NoError ELSE r.error
    /\ passNo' = passNo + 1
    /\ deviceIds' = ids
    /\ fromDate' = w[1]
    /\ toDate' = w[2]
    /\ devIdx' = 1
    /\ stats' = NewStats
    /\ devStats' = NewDeviceStats
    /\ attendanceData' = <<>>
    /\ recIdx' = 1
    /\ ckIdx' = 1
    /\ trace' = <<>>
    /\ testResults' = <<>>
    /\ unreachable' = {}
    /\ UNCHANGED <<inputVars, handleVars, suspended, isMultiDevice, deviceConfigs, orphans, connection, lastSync, faults>>

\* syncSingleDevice, lines 128-140: syncDeviceData on the one device comes first.
SyncSingleDevice(w) ==
    /\ ~isMultiDevice
    /\ Idle
    /\ passNo < MaxPasses
    /\ passNo' = passNo + 1
    /\ deviceIds' = NullIds
    /\ fromDate' = w[1]
    /\ toDate' = w[2]
    /\ devicesToSync' = <<SingleId>>
    /\ devIdx' = 1
    /\ stats' = NewStats
    /\ devStats' = NewDeviceStats
    /\ attendanceData' = <<>>
    /\ recIdx' = 1
    /\ ckIdx' = 1
    /\ error' = NoError
    /\ trace' = <<>>
    /\ pc' = "devConnect"
    /\ UNCHANGED <<inputVars, handleVars, suspended, testVars, registryVars, sinkVars, faults>>

\* await this.databaseAdapter.connect(): line 61, and line 143 in single mode
DbConnect ==
    /\ pc = "dbConnect"
    /\ \E ok \in Outcomes(FbConnectCallsDriver(connection)) :
        LET r == FbConnect(connection, ok)
        IN  /\ connection' = r.connection
            /\ faults' = Charge(ok)
            /\ trace' = Append(trace, Event("dbConnect", NoId, r.resolved))
            /\ pc' = IF ~r.resolved THEN "catch"
                     ELSE IF isMultiDevice THEN "loop" ELSE "checkpoint"
            /\ error' = IF r.resolved THEN error ELSE ErrAttach
    /\ UNCHANGED <<inputVars, handleVars, suspended, testVars, registryVars, lastSync, passNo, argVars, devicesToSync, devIdx,
                   stats, frameVars, ckIdx>>

\* for (const device of devicesToSync), lines 65-69: the next device, whose
\* getDeviceInfo gives the id, or the end of the loop
LoopNextDevice ==
    /\ pc = "loop"
    /\ pc' = IF devIdx <= Len(devicesToSync) THEN "devConnect" ELSE "checkpoint"
    /\ devStats' = NewDeviceStats
    /\ attendanceData' = <<>>
    /\ recIdx' = 1
    /\ UNCHANGED <<inputVars, handleVars, suspended, testVars, registryVars, sinkVars, passNo, faults, argVars, devicesToSync,
                   devIdx, stats, ckIdx, error, trace>>

\* ---------------------------------------------------------- syncDeviceData
\* await device.connect(), line 195
DeviceConnect ==
    /\ pc = "devConnect"
    /\ \E ok \in Outcomes(ZkConnectCallsDriver(devices[CurrentId])) :
        LET r == ZkConnect(devices[CurrentId], ok)
        IN  /\ devices' = [devices EXCEPT ![CurrentId] = r.adapter]
            /\ faults' = Charge(ok)
            /\ trace' = Append(trace, Event("connect", CurrentId, r.resolved))
            /\ pc' = IF r.resolved THEN "retrieve" ELSE "devCatch"
            /\ error' = IF r.resolved THEN error ELSE ErrConnect
    /\ UNCHANGED <<inputVars, handleVars, suspended, testVars, isMultiDevice, deviceConfigs, orphans, sinkVars, passNo, argVars,
                   devicesToSync, devIdx, stats, frameVars, ckIdx>>

\* ZKTecoAdapter.getAttendanceData: data is what the terminal holds
ZkGetAttendanceData(a, id, ok, data, from, to) ==
    IF ~ZkCanRetrieve(a)
    THEN [resolved |-> FALSE, error |-> ErrDevNotConnected, records |-> <<>>]
    ELSE IF ok
    THEN [resolved |-> TRUE, error |-> NoError, records |-> filteredLogs(id, data, from, to)]
    ELSE [resolved |-> FALSE, error |-> ErrRetrieve, records |-> <<>>]

\* await device.getAttendanceData(fromDate, toDate), lines 199-201
DeviceGetAttendance ==
    /\ pc = "retrieve"
    /\ \E ok \in Outcomes(ZkCanRetrieve(devices[CurrentId])) :
       \E data \in IF ok THEN RawLogs ELSE {<<>>} :
        LET r == ZkGetAttendanceData(devices[CurrentId], CurrentId, ok, data, fromDate, toDate)
        IN  /\ faults' = Charge(ok)
            /\ trace' = Append(trace, Event("retrieve", CurrentId, r.resolved))
            /\ attendanceData' = r.records
            /\ devStats' = IF r.resolved
                           THEN [devStats EXCEPT !.totalRecords = Len(r.records)]
                           ELSE devStats
            /\ pc' = IF r.resolved THEN "devDisconnect" ELSE "devCatch"
            /\ error' = IF r.resolved THEN error ELSE r.error
    /\ UNCHANGED <<inputVars, handleVars, suspended, testVars, registryVars, sinkVars, passNo, argVars, devicesToSync, devIdx,
                   stats, recIdx, ckIdx>>

\* Variant of DeviceDisconnect that goes on to the record loop when the
\* disconnect fails.
DeviceDisconnectBestEffort ==
    /\ pc = "devDisconnect"
    /\ \E ok \in Outcomes(ZkDisconnectCallsDriver(devices[CurrentId])) :
        LET r == ZkDisconnect(devices[CurrentId], ok)
        IN  /\ devices' = [devices EXCEPT ![CurrentId] = r.adapter]
            /\ faults' = Charge(ok)
            /\ trace' = Append(trace, Event("disconnect", CurrentId, r.resolved))
    /\ pc' = "insert"
    /\ recIdx' = 1
    /\ UNCHANGED <<inputVars, handleVars, suspended, testVars, isMultiDevice, deviceConfigs,
                   orphans, sinkVars, passNo, argVars, devicesToSync, devIdx, stats, devStats,
                   attendanceData, ckIdx, error>>

\* await device.disconnect(), line 204: before any record is written
DeviceDisconnect ==
    /\ pc = "devDisconnect"
    /\ \E ok \in Outcomes(ZkDisconnectCallsDriver(devices[CurrentId])) :
        LET r == ZkDisconnect(devices[CurrentId], ok)
        IN  /\ devices' = [devices EXCEPT ![CurrentId] = r.adapter]
            /\ faults' = Charge(ok)
            /\ trace' = Append(trace, Event("disconnect", CurrentId, r.resolved))
            /\ pc' = IF r.resolved THEN "insert" ELSE "devCatch"
            /\ error' = IF r.resolved THEN error ELSE ErrDevDisconnect
    /\ recIdx' = 1
    /\ UNCHANGED <<inputVars, handleVars, suspended, testVars, isMultiDevice, deviceConfigs, orphans, sinkVars, passNo, argVars,
                   devicesToSync, devIdx, stats, devStats, attendanceData, ckIdx>>

\* deviceStats.insertedRecords++, line 211
recordInserted(ds) == [ds EXCEPT !.insertedRecords = @ + 1]

\* Variant of recordFailed that takes the failed record out of the total.
recordFailedDropsRecord(ds, rec, msg) ==
    [ds EXCEPT !.totalRecords = @ - 1, !.errors = Append(@, RecordError(rec, msg))]

\* the catch of lines 212-218: the record and the message join the error list
recordFailed(ds, rec, msg) == [ds EXCEPT !.errors = Append(@, RecordError(rec, msg))]

\* one turn of the loop of lines 208-219: insertTimeRecord of the next record
InsertTimeRecord ==
    /\ pc = "insert"
    /\ recIdx <= Len(attendanceData)
    /\ \E ok \in Outcomes(FbExecuteQueryCallsDriver(connection)) :
        LET rec == attendanceData[recIdx]
            r == FbExecuteQuery(connection, ok)
        IN  /\ faults' = Charge(ok)
            /\ trace' = Append(trace, WriteEvent(CurrentId, rec, r.resolved))
            /\ devStats' = IF r.resolved THEN recordInserted(devStats)
                           ELSE recordFailed(devStats, rec, r.error)
    /\ recIdx' = recIdx + 1
    /\ UNCHANGED <<inputVars, handleVars, suspended, testVars, registryVars, sinkVars, passNo, argVars, devicesToSync, devIdx,
                   stats, attendanceData, ckIdx, error, pc>>

\* Variant of accumulate that does not add the device's inserted records.
accumulateForgetsInserted(st, id, ds) ==
    [st EXCEPT !.deviceStats = (id :> ds) @@ @,
               !.totalRecords = @ + ds.totalRecords,
               !.errors = @ \o ds.errors]

\* Variant of accumulate that leaves the device's errors out of the pass-level list.
accumulateWithoutErrors(st, id, ds) ==
    [st EXCEPT !.deviceStats = (id :> ds) @@ @,
               !.totalRecords = @ + ds.totalRecords,
               !.insertedRecords = @ + ds.insertedRecords]

\* lines 73-76: a device's result joins the pass-level result
accumulate(st, id, ds) ==
    [st EXCEPT !.deviceStats = (id :> ds) @@ @,
               !.totalRecords = @ + ds.totalRecords,
               !.insertedRecords = @ + ds.insertedRecords,
               !.errors = @ \o ds.errors]

\* syncDeviceData returns (lines 221-222); the caller goes on: lines 72-78 of
\* syncMultipleDevices, line 143 of syncSingleDevice
SyncDeviceDataReturn ==
    /\ pc = "insert"
    /\ recIdx > Len(attendanceData)
    /\ IF isMultiDevice
       THEN /\ stats' = accumulate(stats, CurrentId, devStats)
            /\ devIdx' = devIdx + 1
            /\ pc' = "loop"
       ELSE /\ stats' = stats
            /\ devIdx' = devIdx
            /\ pc' = "dbConnect"
    /\ UNCHANGED <<inputVars, handleVars, suspended, testVars, registryVars, sinkVars, passNo, faults, argVars, devicesToSync,
                   frameVars, ckIdx, error, trace>>

\* try { await device.disconnect() } catch (e) {}, lines 230-234
cleanupDevice(a, ok) == ZkDisconnect(a, ok)

\* Variant of SyncDeviceDataCatch that throws the error of a failed cleanup.
SyncDeviceDataCatchThrowsCleanupError ==
    /\ pc = "devCatch"
    /\ \E ok \in Outcomes(ZkDisconnectCallsDriver(devices[CurrentId])) :
        LET r == cleanupDevice(devices[CurrentId], ok)
        IN  /\ devices' = [devices EXCEPT ![CurrentId] = r.adapter]
            /\ faults' = Charge(ok)
            /\ trace' = Append(trace, Event("disconnect", CurrentId, r.resolved))
            /\ error' = IF r.resolved THEN error ELSE ErrDevDisconnect
    /\ devStats' = [devStats EXCEPT !.errors = Append(@, PlainError(error))]
    /\ pc' = IF isMultiDevice THEN "devThrown" ELSE "catch"
    /\ UNCHANGED <<inputVars, handleVars, suspended, testVars, isMultiDevice, deviceConfigs,
                   orphans, sinkVars, passNo, argVars, devicesToSync, devIdx, stats,
                   attendanceData, recIdx, ckIdx>>

\* the catch of syncDeviceData, lines 224-237: record, disconnect, rethrow
SyncDeviceDataCatch ==
    /\ pc = "devCatch"
    /\ \E ok \in Outcomes(ZkDisconnectCallsDriver(devices[CurrentId])) :
        LET r == cleanupDevice(devices[CurrentId], ok)
        IN  /\ devices' = [devices EXCEPT ![CurrentId] = r.adapter]
            /\ faults' = Charge(ok)
            /\ trace' = Append(trace, Event("disconnect", CurrentId, r.resolved))
    /\ devStats' = [devStats EXCEPT !.errors = Append(@, PlainError(error))]
    /\ pc' = IF isMultiDevice THEN "devThrown" ELSE "catch"
    /\ UNCHANGED <<inputVars, handleVars, suspended, testVars, isMultiDevice, deviceConfigs, orphans, sinkVars, passNo, argVars,
                   devicesToSync, devIdx, stats, attendanceData, recIdx, ckIdx, error>>

\* ------------------------------------------- syncMultipleDevices, the rest
\* Variant of deviceFailed that forgets which device failed.
deviceFailedUntagged(st, id, msg) ==
    [st EXCEPT !.errors = Append(@, GeneralError(msg)),
               !.deviceStats = (id :> [totalRecords |-> 0, insertedRecords |-> 0,
                                       errors |-> <<PlainError(msg)>>]) @@ @]

\* lines 82-91: the error entry tagged with the device id, and the zero sub-result
deviceFailed(st, id, msg) ==
    [st EXCEPT !.errors = Append(@, DeviceSyncErrorEntry(id, msg)),
               !.deviceStats = (id :> [totalRecords |-> 0, insertedRecords |-> 0,
                                       errors |-> <<PlainError(msg)>>]) @@ @]

\* Variant of afterDeviceError in which the per-device catch rethrows.
afterDeviceErrorRethrow == "catch"

\* where control goes after the per-device catch of lines 80-92: the loop
afterDeviceError == "loop"

\* the per-device catch of syncMultipleDevices, lines 80-92
DeviceSyncError ==
    /\ pc = "devThrown"
    /\ stats' = deviceFailed(stats, CurrentId, error)
    /\ pc' = afterDeviceError
    /\ error' = IF afterDeviceError = "loop" THEN NoError ELSE error
    /\ devIdx' = devIdx + 1
    /\ UNCHANGED <<inputVars, handleVars, suspended, testVars, registryVars, sinkVars, passNo, faults, argVars, devicesToSync,
                   frameVars, ckIdx, trace>>

\* Variant of shouldUpdateLastSync without the test on the inserted records.
shouldUpdateLastSyncAlways(inserted) == inserted >= 0

\* if (stats.insertedRecords > 0), line 96; line 147 in single mode
shouldUpdateLastSync(inserted) == inserted > 0

\* the inserted records the test of line 96 / line 147 looks at
PassInserted == IF isMultiDevice THEN stats.insertedRecords ELSE devStats.insertedRecords

\* one turn of updateAllDevicesLastSync's loop, lines 248-255: the update of one
\* device; when it fails, the catch of line 253 reads deviceInfo, which is
\* declared inside the try block, and raises a ReferenceError that leaves
\* the loop and the function
UpdateAllDevicesLastSync ==
    /\ pc = "checkpoint"
    /\ isMultiDevice
    /\ shouldUpdateLastSync(stats.insertedRecords)
    /\ ckIdx <= Len(devicesToSync)
    /\ \E ok \in Outcomes(FbExecuteQueryCallsDriver(connection)) :
        LET id == devicesToSync[ckIdx]
            r == FbExecuteQuery(connection, ok)
        IN  /\ faults' = Charge(ok)
            /\ trace' = Append(trace, Event("checkpoint", id, r.resolved))
            /\ lastSync' = IF r.resolved THEN [lastSync EXCEPT ![id] = passNo] ELSE lastSync
            /\ pc' = IF r.resolved THEN "checkpoint" ELSE "catch"
            /\ error' = IF r.resolved THEN error ELSE ErrReference
    /\ ckIdx' = ckIdx + 1
    /\ UNCHANGED <<inputVars, handleVars, suspended, testVars, registryVars, connection, passNo, argVars, devicesToSync, devIdx,
                   stats, frameVars>>

\* updateDeviceLastSync, lines 263-267, called from line 148: no catch around it
UpdateDeviceLastSync ==
    /\ pc = "checkpoint"
    /\ ~isMultiDevice
    /\ shouldUpdateLastSync(devStats.insertedRecords)
    /\ ckIdx <= Len(devicesToSync)
    /\ \E ok \in Outcomes(FbExecuteQueryCallsDriver(connection)) :
        LET id == devicesToSync[ckIdx]
            r == FbExecuteQuery(connection, ok)
        IN  /\ faults' = Charge(ok)
            /\ trace' = Append(trace, Event("checkpoint", id, r.resolved))
            /\ lastSync' = IF r.resolved THEN [lastSync EXCEPT ![id] = passNo] ELSE lastSync
            /\ pc' = IF r.resolved THEN "checkpoint" ELSE "catch"
            /\ error' = IF r.resolved THEN error ELSE r.error
    /\ ckIdx' = ckIdx + 1
    /\ UNCHANGED <<inputVars, handleVars, suspended, testVars, registryVars, connection, passNo, argVars, devicesToSync, devIdx,
                   stats, frameVars>>

\* lines 96-102 / 147-153: nothing (more) to update, on to the sink's disconnect
LastSyncDone ==
    /\ pc = "checkpoint"
    /\ ~shouldUpdateLastSync(PassInserted) \/ ckIdx > Len(devicesToSync)
    /\ pc' = "dbDisconnect"
    /\ UNCHANGED <<inputVars, handleVars, suspended, testVars, registryVars, sinkVars, passNo, faults, argVars, devicesToSync,
                   devIdx, stats, frameVars, ckIdx, error, trace>>

\* await this.databaseAdapter.disconnect() and return, lines 102-108 / 153-159
DbDisconnect ==
    /\ pc = "dbDisconnect"
    /\ \E ok \in Outcomes(FbDisconnectCallsDriver(connection)) :
        LET r == FbDisconnect(connection, ok)
        IN  /\ connection' = r.connection
            /\ faults' = Charge(ok)
            /\ trace' = Append(trace, Event("dbDisconnect", NoId, r.resolved))
            /\ pc' = IF r.resolved THEN "returned" ELSE "catch"
            /\ error' = IF r.resolved THEN error ELSE ErrDetach
    /\ UNCHANGED <<inputVars, handleVars, suspended, testVars, registryVars, lastSync, passNo, argVars, devicesToSync, devIdx,
                   stats, frameVars, ckIdx>>

\* ------------------------------------------------------------- the cleanup
\* the order in which the adapters of a cache are listed: their disconnects
\* are started together and awaited by one Promise.all
CacheOrder(cache) ==
    IF isMultiDevice THEN SelectSeqBy(RegisteredIds \o <<UnknownId>>, DOMAIN cache)
    ELSE <<SingleId>>

\* Variant of disconnectAll that clears the cache without disconnecting.
disconnectAllSkipped(cache, failing) ==
    [devices |-> IF isMultiDevice THEN <<>> ELSE cache, orphaned |-> {}, calls |-> <<>>]

\* BiometricDeviceManager.disconnectAll: every cached adapter is disconnected,
\* a failure is logged, the cache is cleared; failing are the adapters whose
\* disconnect fails.  In single mode: the device's own disconnect.
disconnectAll(cache, failing) ==
    [devices |-> IF isMultiDevice THEN <<>>
                 ELSE [id \in DOMAIN cache |-> ZkDisconnect(cache[id], id \notin failing).adapter],
     orphaned |-> IF isMultiDevice THEN failing ELSE {},
     calls |-> [k \in 1..Len(CacheOrder(cache)) |->
                  Event("disconnect", CacheOrder(cache)[k], CacheOrder(cache)[k] \notin failing)]]

\* Variant of cleanupSink that leaves the sink alone.
cleanupSinkSkipped(conn, ok) == [connection |-> conn, resolved |-> TRUE, calls |-> <<>>]

\* try { await this.databaseAdapter.disconnect() } catch (e) {}, lines 284-288
cleanupSink(conn, ok) ==
    [connection |-> FbDisconnect(conn, ok).connection,
     resolved |-> FbDisconnect(conn, ok).resolved,
     calls |-> <<Event("dbDisconnect", NoId, FbDisconnect(conn, ok).resolved)>>]

\* the catch of syncMultipleDevices / syncSingleDevice, lines 110-119 / 161-174,
\* with cleanupConnections, lines 273-289: the error is recorded, every device
\* and the sink are disconnected with failures ignored, the error is rethrown
SyncCatch ==
    /\ pc = "catch"
    /\ \E failing \in SUBSET {id \in DOMAIN devices : ZkDisconnectCallsDriver(devices[id])} :
       \E dbOk \in IF FbDisconnectCallsDriver(connection) THEN BOOLEAN ELSE {TRUE} :
        LET d == disconnectAll(devices, failing)
            c == cleanupSink(connection, dbOk)
            n == Cardinality(failing) + (IF dbOk THEN 0 ELSE 1)
        IN  /\ faults + n <= MaxFaults
            /\ faults' = faults + n
            /\ devices' = d.devices
            /\ orphans' = orphans \cup d.orphaned
            /\ connection' = c.connection
            /\ trace' = trace \o d.calls \o c.calls
    /\ stats' = IF isMultiDevice
                THEN [stats EXCEPT !.errors = Append(@, GeneralError(error))]
                ELSE stats
    /\ pc' = "thrown"
    /\ UNCHANGED <<inputVars, handleVars, suspended, testVars, isMultiDevice, deviceConfigs, lastSync, passNo, argVars,
                   devicesToSync, devIdx, frameVars, ckIdx, error>>

\* ------------------------------------------------------ connection tests
\* Variant of testDeviceConnection that does not look at the disconnect.
testDeviceConnectionIgnoresDisconnect(a, connOk, discOk) ==
    [adapter |-> ZkConnect(a, connOk).adapter,
     success |-> ZkConnect(a, connOk).resolved,
     error |-> IF ZkConnect(a, connOk).resolved THEN NoError ELSE ErrConnect]

\* BiometricDeviceManager.testDeviceConnection on the adapter getDevice gave:
\* connect, getDeviceInfo, disconnect; the first rejection is caught and
\* makes the entry a failure
testDeviceConnection(a, connOk, discOk) ==
    LET c == ZkConnect(a, connOk)
        d == ZkDisconnect(c.adapter, discOk)
    IN  IF ~c.resolved
        THEN [adapter |-> c.adapter, success |-> FALSE, error |-> ErrConnect]
        ELSE [adapter |-> d.adapter, success |-> d.resolved,
              error |-> IF d.resolved THEN NoError ELSE ErrDevDisconnect]

\* the driver calls of one test that fail
TestFaults(cache, connFail, discFail) ==
    {<<"connect", id>> : id \in {x \in connFail : ZkConnectCallsDriver(cache[x])}}
    \cup {<<"disconnect", id>> :
            id \in {x \in discFail : ZkConnect(cache[x], x \notin connFail).resolved}}

\* the configured ids whose getDevice gives testDeviceConnection an adapter
Testable(cache, configs) == {id \in Range(configs) : getDevice(cache, configs, id).found}

\* BiometricDeviceManager.testAllConnections, called while no Sync is running:
\* one testDeviceConnection per configured id, in registration order; connFail
\* are the devices that do not answer a connect, discFail those whose
\* disconnect fails
TestAllConnections(connFail, discFail) ==
    /\ isMultiDevice
    /\ Idle
    /\ passNo < MaxPasses
    /\ connFail \cup discFail \subseteq Testable(devices, deviceConfigs)
    /\ LET cache == [id \in DOMAIN devices \cup Testable(devices, deviceConfigs) |->
                        getDevice(devices, deviceConfigs, id).devices[id]]
           test(id) ==
               IF id \in Testable(devices, deviceConfigs)
               THEN testDeviceConnection(cache[id], id \notin connFail, id \notin discFail)
               ELSE [adapter |-> NewAdapter, success |-> FALSE,
                     error |-> getDevice(devices, deviceConfigs, id).error]
           n == Cardinality(TestFaults(cache, connFail, discFail))
       IN  /\ faults + n <= MaxFaults
           /\ faults' = faults + n
           /\ devices' = [id \in DOMAIN cache |->
                            IF id \in Range(deviceConfigs) THEN test(id).adapter ELSE cache[id]]
           /\ testResults' = [k \in 1..Len(deviceConfigs) |->
                                [deviceId |-> deviceConfigs[k],
                                 success |-> test(deviceConfigs[k]).success,
                                 error |-> test(deviceConfigs[k]).error]]
    /\ unreachable' = connFail
    /\ passNo' = passNo + 1
    /\ UNCHANGED <<inputVars, handleVars, suspended, isMultiDevice, deviceConfigs, orphans, sinkVars, pc, argVars,
                   devicesToSync, devIdx, stats, frameVars, ckIdx, error, trace>>

\* ------------------------------------------------------------ specification
Next ==
    \/ \E ids \in DeviceIdInputs : \E w \in Windows : SyncMultipleDevices(ids, w)
    \/ \E w \in Windows : SyncSingleDevice(w)
    \/ DbConnect
    \/ LoopNextDevice
    \/ DeviceConnect
    \/ DeviceGetAttendance
    \/ DeviceDisconnect
    \/ InsertTimeRecord
    \/ SyncDeviceDataReturn
    \/ SyncDeviceDataCatch
    \/ DeviceSyncError
    \/ UpdateAllDevicesLastSync
    \/ UpdateDeviceLastSync
    \/ LastSyncDone
    \/ DbDisconnect
    \/ SyncCatch
    \/ \E connFail \in SUBSET Range(RegisteredIds) :
       \E discFail \in SUBSET Range(RegisteredIds) : TestAllConnections(connFail, discFail)

Spec == Init /\ [][Next]_vars

\* ------------------------------------------------- the date filter, alone
\* The instants of days 0..MaxDay, and the logs a terminal can return over
\* them: punches in chronological order, the k-th one of employee k.
FilterTicks == 0 .. ((MaxDay + 1) * TicksPerDay - 1)
FilterLogs ==
    {[k \in 1..Len(ts) |-> [uid |-> k, timestamp |-> ts[k]]] :
        ts \in {s \in SeqsUpTo(FilterTicks, MaxLog) :
                    \A i \in 1..Len(s) : \A j \in 1..Len(s) : i < j => s[i] < s[j]}}

\* A connected adapter whose getAttendanceData is about to be called with any
\* window, the terminal holding any log.
FilterInit ==
    /\ isMultiDevice = FALSE
    /\ deviceConfigs = <<>>
    /\ devices = (SingleId :> [isConnected |-> TRUE, device |-> TRUE])
    /\ orphans = {}
    /\ connection = FALSE
    /\ lastSync = [id \in AllIds |-> 0]
    /\ passNo = 0
    /\ faults = 0
    /\ pc = "retrieve"
    /\ deviceIds = NullIds
    /\ fromDate \in FilterTicks
    /\ toDate \in FilterTicks
    /\ devicesToSync = <<SingleId>>
    /\ devIdx = 1
    /\ stats = NewStats
    /\ devStats = NewDeviceStats
    /\ attendanceData = <<>>
    /\ recIdx = 1
    /\ ckIdx = 1
    /\ error = NoError
    /\ trace = <<>>
    /\ rawLog \in FilterLogs
    /\ configFile = NoFile
    /\ validation = NotValidated
    /\ testResults = <<>>
    /\ unreachable = {}
    /\ handle = <<>>
    /\ created = 0
    /\ got = [id \in AllIds |-> {}]
    /\ lastCall = NoCall
    /\ configAddr = <<>>
    /\ configType = <<>>
    /\ suspended = NewFrame

\* ZKTecoAdapter.getAttendanceData resolves with the filtered log
GetAttendanceData ==
    /\ pc = "retrieve"
    /\ LET r == ZkGetAttendanceData(devices[CurrentId], CurrentId, TRUE, rawLog, fromDate, toDate)
       IN  /\ attendanceData' = r.records
           /\ pc' = IF r.resolved THEN "devDisconnect" ELSE "devCatch"
    /\ UNCHANGED <<inputVars, handleVars, suspended, testVars, registryVars, sinkVars, passNo, faults, argVars,
                   devicesToSync, devIdx, stats, devStats, recIdx, ckIdx, error, trace>>

FilterNext == GetAttendanceData

FilterSpec == FilterInit /\ [][FilterNext]_vars

\* ------------------------------------------------- the registry, alone
\* The addresses a configuration entry can carry.
Addresses == {1, 2}
\* The configurations registerDevice is called with: those of the endpoints
\* the loader keeps, at any address, and one that has no id.
ConfigInputs == [id : Range(RegisteredIds) \cup {NoId}, ip : Addresses]

\* Variant of registerDevice that adds an entry at every call.
registerDeviceAppends(configs, addr, cfg) ==
    [threw |-> FALSE, configs |-> Append(configs, cfg.id),
     addr |-> [id \in DOMAIN addr \cup {cfg.id} |-> IF id = cfg.id THEN cfg.ip ELSE addr[id]]]

\* BiometricDeviceManager.registerDevice over the keys of deviceConfigs and
\* their values: a configuration without id is refused; Map.set keeps the
\* position of a key that is already there and replaces its value
registerDevice(configs, addr, cfg) ==
    IF cfg.id = NoId THEN [threw |-> TRUE, configs |-> configs, addr |-> addr]
    ELSE [threw |-> FALSE,
          configs |-> IF cfg.id \in Range(configs) THEN configs ELSE Append(configs, cfg.id),
          addr |-> [id \in DOMAIN addr \cup {cfg.id} |->
                        IF id = cfg.id THEN cfg.ip ELSE addr[id]]]

\* this.deviceConfigs.delete(deviceId) / this.devices.delete(deviceId)
mapDelete(f, id) == [x \in DOMAIN f \ {id} |-> f[x]]

\* new ZKTecoAdapter(config, logger) for the ids of newIds, in that order: each
\* object gets the next serial number and keeps the configuration it was given
materialize(held, n, addr, newIds) ==
    [id \in DOMAIN held \cup Range(newIds) |->
        IF id \in Range(newIds)
        THEN [serial |-> n + (CHOOSE k \in 1..Len(newIds) : newIds[k] = id),
              config |-> addr[id]]
        ELSE held[id]]

\* The registry as its constructor leaves it: no configuration, no adapter.
RegistryInit ==
    /\ isMultiDevice = TRUE
    /\ deviceConfigs = <<>>
    /\ devices = <<>>
    /\ orphans = {}
    /\ connection = FALSE
    /\ lastSync = [id \in AllIds |-> 0]
    /\ passNo = 0
    /\ faults = 0
    /\ pc = "idle"
    /\ deviceIds = NullIds
    /\ fromDate = 0
    /\ toDate = 0
    /\ devicesToSync = <<>>
    /\ devIdx = 1
    /\ stats = NewStats
    /\ devStats = NewDeviceStats
    /\ attendanceData = <<>>
    /\ recIdx = 1
    /\ ckIdx = 1
    /\ error = NoError
    /\ trace = <<>>
    /\ rawLog = <<>>
    /\ configFile = NoFile
    /\ validation = NotValidated
    /\ testResults = <<>>
    /\ unreachable = {}
    /\ handle = <<>>
    /\ created = 0
    /\ got = [id \in AllIds |-> {}]
    /\ lastCall = NoCall
    /\ configAddr = <<>>
    /\ configType = <<>>
    /\ suspended = NewFrame

syncVars == <<connection, lastSync, passNo, pc, deviceIds, fromDate, toDate, devicesToSync,
              devIdx, stats, devStats, attendanceData, recIdx, ckIdx, error, inputVars,
              unreachable, suspended, isMultiDevice>>

\* registerDevice(deviceConfig), lines 19-26
RegisterDevice(cfg) ==
    /\ LET r == registerDevice(deviceConfigs, configAddr, cfg)
       IN  /\ deviceConfigs' = r.configs
           /\ configAddr' = r.addr
           /\ configType' = IF r.threw THEN configType
                            ELSE (cfg.id :> DefaultType) @@ configType
           /\ lastCall' = Call("registerDevice", cfg.id, <<>>, r.threw)
    /\ trace' = <<>>
    /\ testResults' = <<>>
    /\ UNCHANGED <<syncVars, devices, orphans, faults, handle, created, got>>

\* getDevice(deviceId), lines 43-64
GetDevice(id) ==
    /\ LET r == getDevice(devices, deviceConfigs, id)
           newIds == IF r.constructed THEN <<id>> ELSE <<>>
       IN  /\ created + Len(newIds) <= MaxHandles
           /\ devices' = r.devices
           /\ handle' = materialize(handle, created, configAddr, newIds)
           /\ created' = created + Len(newIds)
           /\ lastCall' = Call("getDevice", id,
                               IF r.found THEN <<handle'[id].serial>> ELSE <<>>, ~r.found)
           /\ got' = IF r.found THEN [got EXCEPT ![id] = @ \cup {handle'[id].serial}] ELSE got
    /\ trace' = <<>>
    /\ testResults' = <<>>
    /\ UNCHANGED <<syncVars, deviceConfigs, configAddr, configType, orphans, faults>>

\* Variant of GetAllDevices that returns the cached adapters only.
GetAllDevicesCachedOnly ==
    /\ lastCall' = Call("getAllDevices", NoId,
                        [k \in 1..Len(CacheOrder(devices)) |->
                            handle[CacheOrder(devices)[k]].serial], FALSE)
    /\ trace' = <<>>
    /\ testResults' = <<>>
    /\ UNCHANGED <<syncVars, deviceConfigs, configAddr, configType, orphans, faults, devices, handle,
                   created, got>>

\* getAllDevices(), lines 70-76: getDevice for every key of deviceConfigs
GetAllDevices ==
    /\ LET r == mapGetDevice(devices, deviceConfigs, deviceConfigs)
           newIds == constructedBy(devices, deviceConfigs, deviceConfigs)
       IN  /\ created + Len(newIds) <= MaxHandles
           /\ devices' = r.devices
           /\ handle' = materialize(handle, created, configAddr, newIds)
           /\ created' = created + Len(newIds)
           /\ lastCall' = Call("getAllDevices", NoId,
                               [k \in 1..Len(r.list) |-> handle'[r.list[k]].serial], ~r.found)
           /\ got' = [id \in AllIds |->
                        IF id \in Range(r.list) THEN got[id] \cup {handle'[id].serial}
                        ELSE got[id]]
    /\ trace' = <<>>
    /\ testResults' = <<>>
    /\ UNCHANGED <<syncVars, deviceConfigs, configAddr, configType, orphans, faults>>

\* this.deviceConfigs.delete(deviceId), line 109: Map.delete returns whether
\* the key was there; the order of the other keys stays
mapDeleteKey(configs, id) ==
    [removed |-> id \in Range(configs),
     configs |-> SelectSeqBy(configs, Range(configs) \ {id})]

\* hasDevice(deviceId), lines 99-101
hasDevice(configs, id) == id \in Range(configs)

\* Variant of RemoveDevice that removes the configuration entry and leaves
\* the cached adapter where it is.
RemoveDeviceKeepsAdapter(id) ==
    /\ deviceConfigs' = mapDeleteKey(deviceConfigs, id).configs
    /\ configAddr' = mapDelete(configAddr, id)
    /\ configType' = mapDelete(configType, id)
    /\ lastCall' = CallReturning("removeDevice", id, mapDeleteKey(deviceConfigs, id).removed)
    /\ trace' = <<>>
    /\ testResults' = <<>>
    /\ UNCHANGED <<syncVars, created, devices, orphans, faults, handle, got>>

\* removeDevice(deviceId), lines 108-124: the entry goes, and the cached
\* adapter with it, after a disconnect whose failure is logged
RemoveDevice(id) ==
    /\ deviceConfigs' = mapDeleteKey(deviceConfigs, id).configs
    /\ configAddr' = mapDelete(configAddr, id)
    /\ configType' = mapDelete(configType, id)
    /\ IF id \in DOMAIN devices
       THEN \E ok \in Outcomes(ZkDisconnectCallsDriver(devices[id])) :
              LET d == ZkDisconnect(devices[id], ok)
              IN  /\ devices' = mapDelete(devices, id)
                  /\ orphans' = IF d.adapter.isConnected THEN orphans \cup {id} ELSE orphans
                  /\ faults' = Charge(ok)
                  /\ trace' = <<Event("disconnect", id, d.resolved)>>
       ELSE /\ trace' = <<>>
            /\ UNCHANGED <<devices, orphans, faults>>
    /\ handle' = mapDelete(handle, id)
    /\ got' = [got EXCEPT ![id] = {}]
    /\ lastCall' = CallReturning("removeDevice", id, mapDeleteKey(deviceConfigs, id).removed)
    /\ testResults' = <<>>
    /\ UNCHANGED <<syncVars, created>>

\* Variant of DisconnectAll that disconnects the adapters and keeps the cache.
DisconnectAllKeepsCache(failing) ==
    /\ failing \subseteq {id \in DOMAIN devices : ZkDisconnectCallsDriver(devices[id])}
    /\ faults + Cardinality(failing) <= MaxFaults
    /\ devices' = [id \in DOMAIN devices |-> ZkDisconnect(devices[id], id \notin failing).adapter]
    /\ trace' = disconnectAll(devices, failing).calls
    /\ faults' = faults + Cardinality(failing)
    /\ lastCall' = Call("disconnectAll", NoId, <<>>, FALSE)
    /\ testResults' = <<>>
    /\ UNCHANGED <<syncVars, deviceConfigs, configAddr, configType, created, handle, got, orphans>>

\* disconnectAll(), lines 130-144
DisconnectAll(failing) ==
    /\ failing \subseteq {id \in DOMAIN devices : ZkDisconnectCallsDriver(devices[id])}
    /\ faults + Cardinality(failing) <= MaxFaults
    /\ LET d == disconnectAll(devices, failing)
       IN  /\ devices' = d.devices
           /\ orphans' = orphans \cup d.orphaned
           /\ trace' = d.calls
    /\ faults' = faults + Cardinality(failing)
    /\ handle' = <<>>
    /\ got' = [id \in AllIds |-> {}]
    /\ lastCall' = Call("disconnectAll", NoId, <<>>, FALSE)
    /\ testResults' = <<>>
    /\ UNCHANGED <<syncVars, deviceConfigs, configAddr, configType, created>>

\* adapter.connect() by a caller that borrowed the adapter of id
AdapterConnect(id) ==
    /\ id \in DOMAIN devices
    /\ \E ok \in Outcomes(ZkConnectCallsDriver(devices[id])) :
        /\ devices' = [devices EXCEPT ![id] = ZkConnect(devices[id], ok).adapter]
        /\ faults' = Charge(ok)
        /\ lastCall' = Call("connect", id, <<>>, ~ZkConnect(devices[id], ok).resolved)
    /\ trace' = <<>>
    /\ testResults' = <<>>
    /\ UNCHANGED <<syncVars, deviceConfigs, configAddr, configType, orphans, handle, created, got>>

\* testDeviceConnection(deviceId), lines 213-235, getDevice included: an id
\* without configuration entry makes getDevice throw inside the try
TestDeviceConnection(id, connOk, discOk) ==
    /\ LET r == getDevice(devices, deviceConfigs, id)
           newIds == IF r.constructed THEN <<id>> ELSE <<>>
           connFail == IF connOk THEN {} ELSE {id}
           discFail == IF discOk THEN {} ELSE {id}
       IN  /\ created + Len(newIds) <= MaxHandles
           /\ handle' = materialize(handle, created, configAddr, newIds)
           /\ created' = created + Len(newIds)
           /\ got' = IF r.found THEN [got EXCEPT ![id] = @ \cup {handle'[id].serial}] ELSE got
           /\ IF r.found
              THEN LET t == testDeviceConnection(r.devices[id], connOk, discOk)
                       c == ZkConnect(r.devices[id], connOk)
                       n == Cardinality(TestFaults(r.devices, connFail, discFail))
                   IN  /\ faults + n <= MaxFaults
                       /\ faults' = faults + n
                       /\ devices' = [r.devices EXCEPT ![id] = t.adapter]
                       /\ testResults' = <<[deviceId |-> id, success |-> t.success,
                                            error |-> t.error]>>
                       /\ trace' = <<Event("connect", id, c.resolved)>>
                                   \o (IF c.resolved
                                       THEN <<Event("disconnect", id,
                                                    ZkDisconnect(c.adapter, discOk).resolved)>>
                                       ELSE <<>>)
              ELSE /\ connOk /\ discOk
                   /\ testResults' = <<[deviceId |-> id, success |-> FALSE,
                                        error |-> r.error]>>
                   /\ trace' = <<>>
                   /\ UNCHANGED <<devices, faults>>
    /\ lastCall' = Call("testDeviceConnection", id, <<>>, FALSE)
    /\ UNCHANGED <<syncVars, deviceConfigs, configAddr, configType, orphans>>

RegistryNext ==
    \/ \E cfg \in ConfigInputs : RegisterDevice(cfg)
    \/ \E id \in AllIds : GetDevice(id)
    \/ GetAllDevices
    \/ \E id \in AllIds : RemoveDevice(id)
    \/ \E failing \in SUBSET AllIds : DisconnectAll(failing)
    \/ \E id \in AllIds : AdapterConnect(id)
    \/ \E id \in AllIds : \E connOk \in BOOLEAN : \E discOk \in BOOLEAN :
          TestDeviceConnection(id, connOk, discOk)

RegistrySpec == RegistryInit /\ [][RegistryNext]_vars

\* ------------------------------------------ two Sync calls on one service
\* BiometricSyncService holds no lock: a second call of sync() may start while
\* the first is suspended at an await.  Both calls run on the same registry,
\* the same adapters and the same sink; each has its own locals.  The steps
\* between two awaits that the model takes one by one touch only the locals
\* of their call, so switching between them adds no behaviour.

\* The locals of the running call.
Frame ==
    [pc |-> pc, deviceIds |-> deviceIds, fromDate |-> fromDate, toDate |-> toDate,
     devicesToSync |-> devicesToSync, devIdx |-> devIdx, stats |-> stats,
     devStats |-> devStats, attendanceData |-> attendanceData, recIdx |-> recIdx,
     ckIdx |-> ckIdx, error |-> error, trace |-> trace]

\* The event loop resumes the other call: the running one stays suspended at
\* its await.  From the head of the per-device loop and from the per-device
\* catch the running call goes on to its next await without yielding.
Switch ==
    /\ pc \notin {"loop", "devThrown"}
    /\ pc' = suspended.pc
    /\ deviceIds' = suspended.deviceIds
    /\ fromDate' = suspended.fromDate
    /\ toDate' = suspended.toDate
    /\ devicesToSync' = suspended.devicesToSync
    /\ devIdx' = suspended.devIdx
    /\ stats' = suspended.stats
    /\ devStats' = suspended.devStats
    /\ attendanceData' = suspended.attendanceData
    /\ recIdx' = suspended.recIdx
    /\ ckIdx' = suspended.ckIdx
    /\ error' = suspended.error
    /\ trace' = suspended.trace
    /\ suspended' = Frame
    /\ UNCHANGED <<inputVars, handleVars, testVars, registryVars, sinkVars, passNo, faults>>

\* A multi-device service whose driver calls all succeed: whatever fails in
\* ConcSpec fails because of the other call.
ConcInit ==
    /\ isMultiDevice = TRUE
    /\ deviceConfigs = RegisteredIds
    /\ devices = <<>>
    /\ orphans = {}
    /\ connection = FALSE
    /\ lastSync = [id \in AllIds |-> 0]
    /\ passNo = 0
    /\ faults = MaxFaults
    /\ pc = "idle"
    /\ deviceIds = NullIds
    /\ fromDate = 0
    /\ toDate = 0
    /\ devicesToSync = <<>>
    /\ devIdx = 1
    /\ stats = NewStats
    /\ devStats = NewDeviceStats
    /\ attendanceData = <<>>
    /\ recIdx = 1
    /\ ckIdx = 1
    /\ error = NoError
    /\ trace = <<>>
    /\ rawLog = <<>>
    /\ configFile = NoFile
    /\ validation = NotValidated
    /\ testResults = <<>>
    /\ unreachable = {}
    /\ handle = <<>>
    /\ created = 0
    /\ got = [id \in AllIds |-> {}]
    /\ lastCall = NoCall
    /\ configAddr = [id \in Range(deviceConfigs) |-> 1]
    /\ configType = [id \in Range(deviceConfigs) |-> DefaultType]
    /\ suspended = NewFrame

\* The device set the two calls are made with: no ids given, every device.
ConcIdInputs == {NullIds}

\* The model names a handle by its id in the cache, so a call that holds
\* handles while the cleanup of the other call clears the cache is outside it:
\* ConcSpec follows the interleavings in which cleanupConnections runs when
\* the other call holds no handle.
ConcSyncCatch ==
    /\ suspended.pc \in {"idle", "returned", "thrown", "catch"}
    /\ SyncCatch

ConcNext ==
    \/ \E ids \in ConcIdInputs : \E w \in Windows : SyncMultipleDevices(ids, w)
    \/ DbConnect
    \/ LoopNextDevice
    \/ DeviceConnect
    \/ DeviceGetAttendance
    \/ DeviceDisconnect
    \/ InsertTimeRecord
    \/ SyncDeviceDataReturn
    \/ SyncDeviceDataCatch
    \/ DeviceSyncError
    \/ UpdateAllDevicesLastSync
    \/ LastSyncDone
    \/ DbDisconnect
    \/ ConcSyncCatch
    \/ Switch

ConcSpec == ConcInit /\ [][ConcNext]_vars

\* ------------------------------------- a type the factory has no adapter for
\* devices.json names a type for each endpoint (type: device.type || 'zkteco'),
\* and at least one endpoint is of a type BiometricDeviceFactory.create throws
\* for.  The loader keeps the type as it is and the registry registers it.
FactoryInit ==
    /\ isMultiDevice = TRUE
    /\ deviceConfigs = RegisteredIds
    /\ devices = <<>>
    /\ orphans = {}
    /\ connection = FALSE
    /\ lastSync = [id \in AllIds |-> 0]
    /\ passNo = 0
    /\ faults = 0
    /\ pc = "idle"
    /\ deviceIds = NullIds
    /\ fromDate = 0
    /\ toDate = 0
    /\ devicesToSync = <<>>
    /\ devIdx = 1
    /\ stats = NewStats
    /\ devStats = NewDeviceStats
    /\ attendanceData = <<>>
    /\ recIdx = 1
    /\ ckIdx = 1
    /\ error = NoError
    /\ trace = <<>>
    /\ rawLog = <<>>
    /\ configFile = NoFile
    /\ validation = NotValidated
    /\ testResults = <<>>
    /\ unreachable = {}
    /\ handle = <<>>
    /\ created = 0
    /\ got = [id \in AllIds |-> {}]
    /\ lastCall = NoCall
    /\ configAddr = [id \in Range(deviceConfigs) |-> 1]
    /\ configType \in {t \in [Range(deviceConfigs) -> DeviceTypes] :
                          \E id \in Range(deviceConfigs) : ~factoryCreates(t[id])}
    /\ suspended = NewFrame

\* getDevice(deviceId), part_007 lines 43-64, called while no Sync is running;
\* the adapter objects are not told apart here
GetDeviceCall(id) ==
    /\ Idle
    /\ LET r == getDevice(devices, deviceConfigs, id)
       IN  /\ devices' = r.devices
           /\ lastCall' = Call("getDevice", id, <<>>, ~r.found)
    /\ UNCHANGED <<syncVars, trace, testResults, deviceConfigs, orphans, faults, handle,
                   created, got, configAddr, configType>>

\* getAllDevices(), part_007 lines 70-76, called while no Sync is running: the
\* adapters constructed before the throw stay cached
GetAllDevicesCall ==
    /\ Idle
    /\ LET r == mapGetDevice(devices, deviceConfigs, deviceConfigs)
       IN  /\ devices' = r.devices
           /\ lastCall' = Call("getAllDevices", NoId, <<>>, ~r.found)
    /\ UNCHANGED <<syncVars, trace, testResults, deviceConfigs, orphans, faults, handle,
                   created, got, configAddr, configType>>

FactoryNext ==
    \/ \E id \in AllIds : GetDeviceCall(id)
    \/ GetAllDevicesCall
    \/ \E w \in Windows : SyncMultipleDevices(NullIds, w)
    \/ SyncCatch
    \/ \E connFail \in SUBSET Range(RegisteredIds) :
       \E discFail \in SUBSET Range(RegisteredIds) : TestAllConnections(connFail, discFail)

FactorySpec == FactoryInit /\ [][FactoryNext]_vars

\* ------------------------------------------------ scripts/validate-config.js
\* The values of a parsed devices.json that validateConfig tells apart.  An
\* id is a string (possibly empty), a number, or absent; an address is there
\* or absent; enabled is true, false, absent or null.  An entry of the array
\* can also be null.
IdValues ==
    {[t |-> "str", v |-> "a"], [t |-> "str", v |-> "b"], [t |-> "str", v |-> ""],
     [t |-> "num", v |-> "7"], [t |-> "none", v |-> ""]}
IpValues == {"192.168.1.201", ""}
EnabledValues == {"true", "false", "absent", "null"}
NullEntry == [null |-> TRUE, id |-> [t |-> "none", v |-> ""], ip |-> "", enabled |-> "absent"]
Entries ==
    {[null |-> FALSE, id |-> i, ip |-> a, enabled |-> e] :
        i \in IdValues, a \in IpValues, e \in EnabledValues} \cup {NullEntry}
ConfigFiles ==
    {[kind |-> k, devices |-> <<>>] : k \in {"notObject", "noDevices", "notArray"}}
    \cup {[kind |-> "array", devices |-> d] : d \in SeqsUpTo(Entries, MaxEntries)}

\* JavaScript's truthiness of device.id
truthy(id) == (id.t = "str" /\ id.v # "") \/ (id.t = "num" /\ id.v # "0")

\* the entries of result.errors
MissingId(index) == [msg |-> "Missing required field id", index |-> index, id |-> ""]
IdNotString(index) == [msg |-> "Field id must be a string", index |-> index, id |-> ""]
MissingIp(index) == [msg |-> "Missing required field ip", index |-> index, id |-> ""]
DuplicateId(id) == [msg |-> "Duplicate device ID found", index |-> 0, id |-> id.v]

\* validateDevice(device, index), lines 11-46: the errors; of the warnings,
\* none arises from the fields kept here
validateDevice(device, index) ==
    (IF ~truthy(device.id) THEN <<MissingId(index)>>
     ELSE IF device.id.t # "str" THEN <<IdNotString(index)>> ELSE <<>>)
    \o (IF device.ip = "" THEN <<MissingIp(index)>> ELSE <<>>)

\* lines 84-95: the ids seen again, in the order they are first seen again
RECURSIVE duplicateIds(_, _, _)
duplicateIds(devs, seen, dups) ==
    IF devs = <<>> THEN dups
    ELSE LET id == Head(devs).id
         IN  IF ~truthy(id) THEN duplicateIds(Tail(devs), seen, dups)
             ELSE duplicateIds(Tail(devs), seen \cup {id},
                               IF id \in seen /\ id \notin Range(dups)
                               THEN Append(dups, id) ELSE dups)

\* Variant of isEnabled that takes every value but true as disabled.
isEnabledOnlyWhenTrue(device) == device.enabled = "true"

\* device.enabled !== false, line 104
isEnabled(device) == device.enabled # "false"

\* lines 98-111: the loop over the devices, from entry k on
RECURSIVE validateEach(_, _, _)
validateEach(devs, k, res) ==
    IF k > Len(devs) THEN res
    ELSE validateEach(devs, k + 1,
            [res EXCEPT !.devices.total = @ + 1,
                        !.devices.enabled = IF isEnabled(devs[k]) THEN @ + 1 ELSE @,
                        !.devices.disabled = IF isEnabled(devs[k]) THEN @ ELSE @ + 1,
                        !.errors = @ \o validateDevice(devs[k], k)])

\* validateConfig(config), lines 48-120.  Reading a field of a null entry
\* throws a TypeError in the first loop, and no result is returned.
validateConfig(config) ==
    LET start == [NotValidated EXCEPT !.done = TRUE]
        failed(msg) ==
            [start EXCEPT !.valid = FALSE,
                          !.errors = <<[msg |-> msg, index |-> 0, id |-> ""]>>]
        devs == config.devices
        dups == duplicateIds(devs, {}, <<>>)
        dupErrors == [k \in 1..Len(dups) |-> DuplicateId(dups[k])]
        res == validateEach(devs, 1, [start EXCEPT !.errors = dupErrors])
    IN  IF config.kind = "notObject" THEN failed("Config must be a valid JSON object")
        ELSE IF config.kind = "noDevices" THEN failed("Config must contain a devices array")
        ELSE IF config.kind = "notArray" THEN failed("Field devices must be an array")
        ELSE IF \E k \in 1..Len(devs) : devs[k].null THEN [start EXCEPT !.threw = TRUE]
        ELSE [res EXCEPT !.valid = (Len(res.errors) = 0),
                         !.warnings = IF Len(devs) = 0
                                      THEN <<"No devices defined in configuration">>
                                      ELSE <<>>]

\* main(), lines 122-160: the file is read and parsed
ValidateInit ==
    /\ isMultiDevice = FALSE
    /\ deviceConfigs = <<>>
    /\ devices = (SingleId :> NewAdapter)
    /\ orphans = {}
    /\ connection = FALSE
    /\ lastSync = [id \in AllIds |-> 0]
    /\ passNo = 0
    /\ faults = 0
    /\ pc = "idle"
    /\ deviceIds = NullIds
    /\ fromDate = 0
    /\ toDate = 0
    /\ devicesToSync = <<>>
    /\ devIdx = 1
    /\ stats = NewStats
    /\ devStats = NewDeviceStats
    /\ attendanceData = <<>>
    /\ recIdx = 1
    /\ ckIdx = 1
    /\ error = NoError
    /\ trace = <<>>
    /\ rawLog = <<>>
    /\ testResults = <<>>
    /\ unreachable = {}
    /\ handle = <<>>
    /\ created = 0
    /\ got = [id \in AllIds |-> {}]
    /\ lastCall = NoCall
    /\ configAddr = <<>>
    /\ configType = <<>>
    /\ suspended = NewFrame
    /\ configFile \in ConfigFiles
    /\ validation = NotValidated

\* const validation = validateConfig(config)
ValidateConfig ==
    /\ ~validation.done
    /\ validation' = validateConfig(configFile)
    /\ UNCHANGED <<rawLog, configFile, handleVars, suspended, testVars, registryVars, sinkVars,
                   passNo, faults, argVars, pc, devicesToSync, devIdx, stats, frameVars,
                   ckIdx, error, trace>>

ValidateNext == ValidateConfig

ValidateSpec == ValidateInit /\ [][ValidateNext]_vars

\* ------------------------------------------------ FirebirdAdapter, alone
\* Any sequence of calls on one FirebirdAdapter.  trace holds the latest call
\* and, after it, the call it made on node-firebird (attach, detach, query),
\* if it made one; error holds the message it rejected with.
SinkInit ==
    /\ isMultiDevice = FALSE
    /\ deviceConfigs = <<>>
    /\ devices = (SingleId :> NewAdapter)
    /\ orphans = {}
    /\ connection = FALSE
    /\ lastSync = [id \in AllIds |-> 0]
    /\ passNo = 0
    /\ faults = 0
    /\ pc = "idle"
    /\ deviceIds = NullIds
    /\ fromDate = 0
    /\ toDate = 0
    /\ devicesToSync = <<>>
    /\ devIdx = 1
    /\ stats = NewStats
    /\ devStats = NewDeviceStats
    /\ attendanceData = <<>>
    /\ recIdx = 1
    /\ ckIdx = 1
    /\ error = NoError
    /\ trace = <<>>
    /\ rawLog = <<>>
    /\ configFile = NoFile
    /\ validation = NotValidated
    /\ testResults = <<>>
    /\ unreachable = {}
    /\ handle = <<>>
    /\ created = 0
    /\ got = [id \in AllIds |-> {}]
    /\ lastCall = NoCall
    /\ configAddr = <<>>
    /\ configType = <<>>
    /\ suspended = NewFrame

\* what a call on the sink leaves alone, besides connection, lastSync, faults,
\* error and trace
sinkFrame ==
    <<inputVars, handleVars, suspended, testVars, registryVars, passNo, argVars, pc,
      devicesToSync, devIdx, stats, frameVars, ckIdx>>

\* the call made on the driver, if one is made
DriverCall(made, op, ok) == IF made THEN <<Event(op, NoId, ok)>> ELSE <<>>

\* FirebirdAdapter.connect(), lines 20-38
SinkConnect ==
    /\ \E ok \in Outcomes(FbConnectCallsDriver(connection)) :
        LET r == FbConnect(connection, ok)
        IN  /\ connection' = r.connection
            /\ faults' = Charge(ok)
            /\ error' = IF r.resolved THEN NoError ELSE ErrAttach
            /\ trace' = <<Event("dbConnect", NoId, r.resolved)>>
                        \o DriverCall(FbConnectCallsDriver(connection), "attach", ok)
    /\ UNCHANGED <<sinkFrame, lastSync>>

\* FirebirdAdapter.disconnect(), lines 44-60
SinkDisconnect ==
    /\ \E ok \in Outcomes(FbDisconnectCallsDriver(connection)) :
        LET r == FbDisconnect(connection, ok)
        IN  /\ connection' = r.connection
            /\ faults' = Charge(ok)
            /\ error' = IF r.resolved THEN NoError ELSE ErrDetach
            /\ trace' = <<Event("dbDisconnect", NoId, r.resolved)>>
                        \o DriverCall(FbDisconnectCallsDriver(connection), "detach", ok)
    /\ UNCHANGED <<sinkFrame, lastSync>>

\* executeQuery(query, params), lines 110-128, and the two methods that
\* return its promise: insertTimeRecord (lines 73-89) and
\* updateBiometricDevice (lines 97-102), whose update takes effect when the
\* query succeeds
SinkExecuteQuery(op, id, timestamp) ==
    /\ \E ok \in Outcomes(FbExecuteQueryCallsDriver(connection)) :
        LET r == FbExecuteQuery(connection, ok)
        IN  /\ faults' = Charge(ok)
            /\ error' = r.error
            /\ trace' = <<Event(op, id, r.resolved)>>
                        \o DriverCall(FbExecuteQueryCallsDriver(connection), "query", ok)
            /\ lastSync' = IF op = "checkpoint" /\ r.resolved
                           THEN [lastSync EXCEPT ![id] = timestamp] ELSE lastSync
    /\ UNCHANGED <<sinkFrame, connection>>

\* insertTimeRecord(record), lines 73-89
SinkInsertTimeRecord == \E id \in Range(RegisteredIds) : SinkExecuteQuery("write", id, 0)

\* updateBiometricDevice(deviceId, timestamp), lines 97-102
SinkUpdateBiometricDevice ==
    \E id \in Range(RegisteredIds) : \E t \in 1..MaxPasses :
        SinkExecuteQuery("checkpoint", id, t)

SinkNext ==
    \/ SinkConnect
    \/ SinkDisconnect
    \/ SinkInsertTimeRecord
    \/ SinkUpdateBiometricDevice
    \/ SinkExecuteQuery("query", NoId, 0)

SinkSpec == SinkInit /\ [][SinkNext]_vars

\* -------------------------------------------------- ZKTecoAdapter, alone
\* Any sequence of calls on one ZKTecoAdapter, constructed from the
\* configuration of one of the registered terminals.  trace holds the latest
\* call and, after it, the call it made on zklib, if it made one.
AdapterInit ==
    /\ isMultiDevice = FALSE
    /\ deviceConfigs = <<>>
    /\ \E id \in Range(RegisteredIds) : devices = (id :> NewAdapter)
    /\ orphans = {}
    /\ connection = FALSE
    /\ lastSync = [id \in AllIds |-> 0]
    /\ passNo = 0
    /\ faults = 0
    /\ pc = "idle"
    /\ deviceIds = NullIds
    /\ fromDate = 0
    /\ toDate = TicksPerDay
    /\ devicesToSync = <<>>
    /\ devIdx = 1
    /\ stats = NewStats
    /\ devStats = NewDeviceStats
    /\ attendanceData = <<>>
    /\ recIdx = 1
    /\ ckIdx = 1
    /\ error = NoError
    /\ trace = <<>>
    /\ rawLog = <<>>
    /\ configFile = NoFile
    /\ validation = NotValidated
    /\ testResults = <<>>
    /\ unreachable = {}
    /\ handle = <<>>
    /\ created = 0
    /\ got = [id \in AllIds |-> {}]
    /\ lastCall = NoCall
    /\ configAddr = <<>>
    /\ configType = <<>>
    /\ suspended = NewFrame

\* what a call on the adapter leaves alone, besides devices, attendanceData,
\* faults, error and trace
adapterFrame ==
    <<inputVars, handleVars, suspended, testVars, isMultiDevice, deviceConfigs, orphans,
      sinkVars, passNo, argVars, pc, devicesToSync, devIdx, stats, devStats, recIdx, ckIdx>>

\* ZKTecoAdapter.connect(), lines 22-48
ZkConnectCall(id) ==
    /\ id \in DOMAIN devices
    /\ \E ok \in Outcomes(ZkConnectCallsDriver(devices[id])) :
        LET r == ZkConnect(devices[id], ok)
        IN  /\ devices' = [devices EXCEPT ![id] = r.adapter]
            /\ faults' = Charge(ok)
            /\ error' = IF r.resolved THEN NoError ELSE ErrConnect
            /\ trace' = <<Event("connect", id, r.resolved)>>
                        \o DriverCall(ZkConnectCallsDriver(devices[id]), "zkConnect", ok)
    /\ UNCHANGED <<adapterFrame, attendanceData>>

\* ZKTecoAdapter.disconnect(), lines 54-73
ZkDisconnectCall(id) ==
    /\ id \in DOMAIN devices
    /\ \E ok \in Outcomes(ZkDisconnectCallsDriver(devices[id])) :
        LET r == ZkDisconnect(devices[id], ok)
        IN  /\ devices' = [devices EXCEPT ![id] = r.adapter]
            /\ faults' = Charge(ok)
            /\ error' = IF r.resolved THEN NoError ELSE ErrDevDisconnect
            /\ trace' = <<Event("disconnect", id, r.resolved)>>
                        \o DriverCall(ZkDisconnectCallsDriver(devices[id]), "zkDisconnect", ok)
    /\ UNCHANGED <<adapterFrame, attendanceData>>

\* ZKTecoAdapter.getAttendanceData(fromDate, toDate), lines 81-117
ZkGetAttendanceDataCall(id) ==
    /\ id \in DOMAIN devices
    /\ \E ok \in Outcomes(ZkCanRetrieve(devices[id])) :
       \E data \in IF ok THEN RawLogs ELSE {<<>>} :
        LET r == ZkGetAttendanceData(devices[id], id, ok, data, fromDate, toDate)
        IN  /\ faults' = Charge(ok)
            /\ error' = r.error
            /\ attendanceData' = r.records
            /\ trace' = <<Event("retrieve", id, r.resolved)>>
                        \o DriverCall(ZkCanRetrieve(devices[id]), "zkGetAttendance", ok)
    /\ UNCHANGED <<adapterFrame, devices>>

\* ZKTecoAdapter.getDeviceInfo(), lines 125-153: the event carries the id of
\* the object it resolved with
ZkGetDeviceInfoCall(id) ==
    /\ id \in DOMAIN devices
    /\ LET r == ZkGetDeviceInfo(devices[id], id)
       IN  /\ error' = IF r.resolved THEN NoError ELSE ErrDevNotConnected
           /\ trace' = <<Event("deviceInfo", r.id, r.resolved)>>
    /\ UNCHANGED <<adapterFrame, devices, attendanceData, faults>>

AdapterNext ==
    \/ \E id \in Range(RegisteredIds) : ZkConnectCall(id)
    \/ \E id \in Range(RegisteredIds) : ZkDisconnectCall(id)
    \/ \E id \in Range(RegisteredIds) : ZkGetAttendanceDataCall(id)
    \/ \E id \in Range(RegisteredIds) : ZkGetDeviceInfoCall(id)

AdapterSpec == AdapterInit /\ [][AdapterNext]_vars

\* ------------------------------------------------------ reading the history
Done == pc \in {"returned", "thrown"}
PassEnded == passNo > 0 /\ Done

\* positions of the history at which op was called
Calls(op) == {i \in 1..Len(trace) : trace[i].op = op}
FailedCalls(op) == {i \in Calls(op) : ~trace[i].ok}

RECURSIVE SelectOps(_, _)
SelectOps(h, ops) ==
    IF h = <<>> THEN <<>>
    ELSE IF Head(h).op \in ops THEN <<Head(h)>> \o SelectOps(Tail(h), ops)
         ELSE SelectOps(Tail(h), ops)

\* the devices on which connect was called, in the order of the calls
ConnectOrder == [i \in 1..Len(SelectOps(trace, {"connect"})) |-> SelectOps(trace, {"connect"})[i].dev]

\* the write attempts made since the last retrieval
LastRetrieve == IF Calls("retrieve") = {} THEN 0
                ELSE CHOOSE i \in Calls("retrieve") : \A j \in Calls("retrieve") : j <= i
WritesSinceRetrieve == SelectOps(SubSeq(trace, LastRetrieve + 1, Len(trace)), {"write"})

RECURSIVE FailedRecords(_)
FailedRecords(w) ==
    IF w = <<>> THEN <<>>
    ELSE IF Head(w).ok THEN FailedRecords(Tail(w))
         ELSE <<Head(w).rec>> \o FailedRecords(Tail(w))

\* the errors a device or record failure of syncDeviceData can raise
DeviceErrors == {ErrConnect, ErrRetrieve, ErrDevDisconnect, ErrDevNotConnected}

Distinct(s) == \A i \in 1..Len(s) : \A j \in 1..Len(s) : i # j => s[i] # s[j]
Occurrences(s, x) == Cardinality({i \in 1..Len(s) : s[i] = x})

RECURSIVE SumTotal(_, _)
SumTotal(ds, S) ==
    IF S = {} THEN 0
    ELSE LET id == CHOOSE x \in S : TRUE
         IN  ds[id].totalRecords + SumTotal(ds, S \ {id})

RECURSIVE SumInserted(_, _)
SumInserted(ds, S) ==
    IF S = {} THEN 0
    ELSE LET id == CHOOSE x \in S : TRUE
         IN  ds[id].insertedRecords + SumInserted(ds, S \ {id})

\* ------------------------------------------------------------------ claims

\* C1: in a multi-device pass an error raised by syncDeviceData (connect,
\* retrieval or device disconnect) is caught per device: it is never the error
\* the pass throws, and once the per-device loop is over (the pass is at the
\* checkpoint step, at the sink's disconnect, has returned, or has thrown a
\* later error) connect was called on every resolved device, in resolved order.
C1_DeviceFailureIsolated ==
    isMultiDevice =>
        /\ pc \in {"catch", "thrown"} => error \notin DeviceErrors
        /\ pc \in {"checkpoint", "dbDisconnect", "returned"} => ConnectOrder = devicesToSync
        /\ (pc \in {"catch", "thrown"} /\ error \in {ErrReference, ErrDetach})
               => ConnectOrder = devicesToSync

\* C1 witness: the first of two devices failed to connect, the second was
\* synchronized with records, and the pass returned.
C1_Witness ==
    /\ isMultiDevice
    /\ pc = "returned"
    /\ Len(devicesToSync) = 2
    /\ \E i \in FailedCalls("connect") : trace[i].dev = devicesToSync[1]
    /\ \E i \in Calls("write") : trace[i].dev = devicesToSync[2]
    /\ stats.totalRecords > 0

\* C2, the handler: the per-device catch of a connect failure leaves
\* totalRecords and insertedRecords as they are, appends exactly one entry to
\* the pass-level error list, tagged with the device's id, sets the device's
\* sub-result to 0/0 and leaves every other sub-result as it is.
C2_HandlerStep ==
    (pc = "devThrown" /\ error = ErrConnect /\ pc' # "devThrown") =>
        /\ stats'.totalRecords = stats.totalRecords
        /\ stats'.insertedRecords = stats.insertedRecords
        /\ Len(stats'.errors) = Len(stats.errors) + 1
        /\ SubSeq(stats'.errors, 1, Len(stats.errors)) = stats.errors
        /\ stats'.errors[Len(stats'.errors)].deviceId = CurrentId
        /\ CurrentId \in DOMAIN stats'.deviceStats
        /\ stats'.deviceStats[CurrentId].totalRecords = 0
        /\ stats'.deviceStats[CurrentId].insertedRecords = 0
        /\ \A id \in DOMAIN stats.deviceStats \ {CurrentId} :
               /\ id \in DOMAIN stats'.deviceStats
               /\ stats'.deviceStats[id] = stats.deviceStats[id]

\* C2, the result: in a returned result, a device listed once whose connect
\* failed has exactly one entry of the error list under its id and a 0/0
\* sub-result, and a device listed once whose sync completed has a sub-result
\* with its own counts (its write attempts, and those that succeeded).
C2_Result ==
    (isMultiDevice /\ pc = "returned") =>
        \A id \in Range(devicesToSync) :
            Occurrences(devicesToSync, id) = 1 =>
                IF \E i \in FailedCalls("connect") : trace[i].dev = id
                THEN /\ Cardinality({k \in 1..Len(stats.errors) : stats.errors[k].deviceId = id}) = 1
                     /\ stats.deviceStats[id].totalRecords = 0
                     /\ stats.deviceStats[id].insertedRecords = 0
                     /\ \A i \in Calls("write") : trace[i].dev # id
                ELSE (\A i \in Calls("retrieve") \cup Calls("disconnect") : trace[i].dev = id => trace[i].ok)
                     => /\ stats.deviceStats[id].totalRecords =
                               Cardinality({i \in Calls("write") : trace[i].dev = id})
                        /\ stats.deviceStats[id].insertedRecords =
                               Cardinality({i \in Calls("write") : trace[i].dev = id /\ trace[i].ok})

C2_ConnectFailureContributesZero == [][C2_HandlerStep]_vars /\ []C2_Result

\* C2 witness: of two devices the first failed to connect and the second
\* returned two records; the result has totalRecords = 2, one error under the
\* first device's id, a 0/0 sub-result for it and the second's counts.
C2_Witness ==
    /\ isMultiDevice
    /\ pc = "returned"
    /\ devicesToSync = <<"d1", "d2">>
    /\ \E i \in FailedCalls("connect") : trace[i].dev = "d1"
    /\ stats.totalRecords = 2
    /\ stats.deviceStats["d1"].totalRecords = 0
    /\ stats.deviceStats["d2"].totalRecords = 2
    /\ Cardinality({k \in 1..Len(stats.errors) : stats.errors[k].deviceId = "d1"}) = 1

\* C3: while syncDeviceData runs its record loop, totalRecords is the number n
\* of retrieved records, the writes attempted so far are those of the first
\* records in retrieval order, insertedRecords counts the successful ones and
\* the error list holds exactly the failed records, in order; and when the
\* loop has been left all n writes were attempted, so that
\* insertedRecords = n - k and the error list has k entries.
C3_RecordFailureIsolated ==
    LET w == WritesSinceRetrieve
        n == Len(attendanceData)
    IN  /\ pc = "insert" =>
            /\ devStats.totalRecords = n
            /\ Len(w) = recIdx - 1
            /\ \A i \in 1..Len(w) : w[i].rec = attendanceData[i]
            /\ devStats.insertedRecords = Cardinality({i \in 1..Len(w) : w[i].ok})
            /\ [i \in 1..Len(devStats.errors) |-> devStats.errors[i].record] = FailedRecords(w)
            /\ \A i \in 1..Len(devStats.errors) : devStats.errors[i].type = "record_error"
        /\ (pc \in {"loop", "dbConnect"} /\ trace # <<>> /\ trace[Len(trace)].op = "write") =>
            /\ Len(w) = n
            /\ devStats.totalRecords = n
            /\ devStats.insertedRecords = n - Len(FailedRecords(w))
            /\ Len(devStats.errors) = Len(FailedRecords(w))

\* C3 witness: two records retrieved, the write of the first failed, the
\* second was still written: totalRecords = 2, insertedRecords = 1, one error.
C3_Witness ==
    /\ pc = "insert"
    /\ recIdx > Len(attendanceData)
    /\ Len(attendanceData) = 2
    /\ Len(WritesSinceRetrieve) = 2
    /\ ~WritesSinceRetrieve[1].ok
    /\ WritesSinceRetrieve[2].ok
    /\ devStats.totalRecords = 2
    /\ devStats.insertedRecords = 1
    /\ Len(devStats.errors) = 1

C5_UnknownIdFailsBeforeAnyContact ==
    (isMultiDevice /\ pc # "idle" /\ deviceIds.given /\ UnknownId \in Range(deviceIds.list)) =>
        /\ pc \in {"catch", "thrown"}
        /\ error = ErrConfigNotFound
        /\ Calls("connect") = {}
        /\ Calls("retrieve") = {}
        /\ Calls("dbConnect") = {}
        /\ Calls("write") = {}
        /\ Calls("checkpoint") = {}

\* C5 witness: the unknown id stands last in the list, after a registered id
\* whose handle was resolved, and the call has thrown.
C5_Witness ==
    /\ isMultiDevice
    /\ pc = "thrown"
    /\ deviceIds.given
    /\ deviceIds.list = <<"d1", UnknownId>>
    /\ error = ErrConfigNotFound

\* the device set of the pass was resolved
Resolved == pc # "idle" /\ ~(pc \in {"catch", "thrown"} /\ error = ErrConfigNotFound)

\* C6 as stated: when a multi-device pass whose device set was resolved has
\* returned or thrown, the sink's connect was invoked exactly once and the
\* sink's disconnect exactly once.
C6_SinkOpenedAndClosedOnce ==
    (isMultiDevice /\ PassEnded /\ Resolved) =>
        /\ Cardinality(Calls("dbConnect")) = 1
        /\ Cardinality(Calls("dbDisconnect")) = 1

\* C6 amended: when a multi-device pass whose device set was resolved has
\* returned or thrown, the sink's connect was invoked exactly once, as the
\* first call of the pass, and the sink's disconnect exactly once, as the last
\* call, except when the disconnect at the end of the pass failed: then the
\* cleanup invoked it a second time before the pass threw.
C6_SinkClosedOnceOrRetried ==
    (isMultiDevice /\ PassEnded /\ Resolved) =>
        /\ Calls("dbConnect") = {1}
        /\ trace[Len(trace)].op = "dbDisconnect"
        /\ Cardinality(Calls("dbDisconnect")) =
               IF pc = "thrown" /\ error = ErrDetach THEN 2 ELSE 1
        /\ (pc = "thrown" /\ error = ErrDetach) =>
               \E i \in FailedCalls("dbDisconnect") : i < Len(trace)

\* C6 witness: the sink's disconnect at the end of a pass with records failed,
\* the cleanup retried it, and the pass threw.
C6_Witness ==
    /\ isMultiDevice
    /\ pc = "thrown"
    /\ error = ErrDetach
    /\ Cardinality(Calls("dbDisconnect")) = 2
    /\ Calls("write") # {}

\* C7 as stated: when Sync has returned or thrown, no device handle is
\* connected, cached or dropped from the cache, and the sink is not open.
C7_NothingLeftOpen ==
    PassEnded =>
        /\ \A id \in DOMAIN devices : ~devices[id].isConnected
        /\ orphans = {}
        /\ ~connection

\* C8: every checkpoint update of a pass is made when the pass-level
\* insertedRecords is greater than 0 and after the last device connect,
\* retrieval and record write of the pass; a device's checkpoint carries the
\* timestamp of the current pass only if the pass made that update.
C8_CheckpointOnlyAfterInsert ==
    /\ \A i \in Calls("checkpoint") :
        /\ PassInserted > 0
        /\ \A j \in (i + 1)..Len(trace) : trace[j].op \notin {"connect", "retrieve", "write"}
    /\ \A id \in AllIds :
        (passNo > 0 /\ lastSync[id] = passNo) =>
            /\ PassInserted > 0
            /\ \E i \in Calls("checkpoint") : trace[i].dev = id /\ trace[i].ok

\* C8 witness: the first pass inserted records and updated a checkpoint; the
\* second pass retrieved records, inserted none of them, called no checkpoint
\* update and returned with the checkpoint of the first pass untouched.
C8_Witness ==
    /\ isMultiDevice
    /\ passNo = 2
    /\ pc = "returned"
    /\ stats.totalRecords > 0
    /\ stats.insertedRecords = 0
    /\ Calls("checkpoint") = {}
    /\ \E id \in AllIds : lastSync[id] = 1

\* C9 as stated: when a multi-device pass that inserted at least one record
\* has returned or thrown after its per-device loop, UpdateCheckpoint was
\* called for every resolved device, after the last record write and before
\* the sink's disconnect.
C9_CheckpointForEveryDevice ==
    (isMultiDevice /\ PassEnded /\ Resolved /\ stats.insertedRecords > 0) =>
        \A id \in Range(devicesToSync) :
            \E i \in Calls("checkpoint") :
                /\ trace[i].dev = id
                /\ \A j \in Calls("write") : j < i
                /\ \A j \in Calls("dbDisconnect") : i < j

\* C10 as stated: a failed checkpoint update does not fail the pass: when the
\* pass throws after one, it throws for another reason (the sink's close), and
\* the update was attempted for every resolved device.
C10_CheckpointFailureTolerated ==
    (isMultiDevice /\ FailedCalls("checkpoint") # {}) =>
        /\ pc \in {"catch", "thrown"} => error = ErrDetach
        /\ Done => \A id \in Range(devicesToSync) :
                      \E i \in Calls("checkpoint") : trace[i].dev = id

\* C11, the cleanup step: when the sink's connect has failed in a multi-device
\* pass, the catch calls disconnect on every device handle of the cache and
\* then on the sink, and Sync throws the sink's error.
C11_CleanupStep ==
    (isMultiDevice /\ pc = "catch" /\ error = ErrAttach /\ pc' # "catch") =>
        /\ pc' = "thrown"
        /\ error' = ErrAttach
        /\ \A id \in DOMAIN devices :
               \E i \in (Len(trace) + 1)..Len(trace') :
                   trace'[i].op = "disconnect" /\ trace'[i].dev = id
        /\ trace'[Len(trace')].op = "dbDisconnect"
        /\ \A i \in (Len(trace) + 1)..Len(trace') : trace'[i].op \in {"disconnect", "dbDisconnect"}

\* C11, the pass: a multi-device pass whose sink connect failed issues no
\* device connect, no record write and no checkpoint update, and never returns.
C11_NoWork ==
    (isMultiDevice /\ FailedCalls("dbConnect") # {}) =>
        /\ Calls("connect") = {}
        /\ Calls("retrieve") = {}
        /\ Calls("write") = {}
        /\ Calls("checkpoint") = {}
        /\ pc \in {"catch", "thrown"}
        /\ error = ErrAttach

C11_SinkOpenFailureCleansUpAndRethrows == [][C11_CleanupStep]_vars /\ []C11_NoWork

\* C11 witness: the sink's connect failed in a pass over two resolved devices;
\* Sync has thrown the sink's error after disconnect was called on both
\* handles and on the sink.
C11_Witness ==
    /\ isMultiDevice
    /\ pc = "thrown"
    /\ error = ErrAttach
    /\ devicesToSync = <<"d1", "d2">>
    /\ FailedCalls("dbConnect") # {}
    /\ \A id \in {"d1", "d2"} : \E i \in Calls("disconnect") : trace[i].dev = id
    /\ Calls("dbDisconnect") # {}

\* C12 as stated: every record write and every checkpoint update of a pass, in
\* multi-device and in single-device mode, is made after the pass's sink
\* connect completed and before its sink disconnect.
C12_WritesWhileSinkOpen ==
    \A i \in Calls("write") \cup Calls("checkpoint") :
        /\ \E j \in Calls("dbConnect") : j < i /\ trace[j].ok
        /\ \A j \in Calls("dbDisconnect") : i < j

\* the result a pass hands back: stats in multi-device mode (line 108),
\* syncDeviceData's deviceStats in single-device mode (line 159)
PassResult == IF isMultiDevice THEN stats ELSE devStats

\* C13 as stated: a pass over exactly one device has the same outcome in
\* single-device mode as in multi-device mode over a registry of that device.
\* What the multi-device pass does is stated without reference to the mode:
\* with no sink-level failure (sink connect, checkpoint update, sink
\* disconnect) the pass returns, whatever the device did; the returned
\* totalRecords is the number of records retrieved; and with no driver failure
\* at all every retrieved record is inserted and the error list is empty.
C13_SingleModeAsMultiMode ==
    (PassEnded /\ Len(devicesToSync) = 1) =>
        /\ (\A op \in {"dbConnect", "checkpoint", "dbDisconnect"} : FailedCalls(op) = {})
               => pc = "returned"
        /\ pc = "returned" => PassResult.totalRecords = Cardinality(Calls("write"))
        /\ (pc = "returned" /\ faults = 0) =>
               /\ PassResult.insertedRecords = PassResult.totalRecords
               /\ PassResult.errors = <<>>

\* C14: whenever syncDeviceData is in its record loop, about to write or
\* having written, the device is not connected; and every write of a device's
\* record is preceded by a disconnect call on that device that resolved, with
\* nothing but writes of that device's records in between (so the disconnect
\* comes after the retrieval and before the first write).
C14_DisconnectedBeforeWrites ==
    /\ pc = "insert" => ~devices[CurrentId].isConnected
    /\ \A i \in Calls("write") :
        \E j \in Calls("disconnect") :
            /\ j < i
            /\ trace[j].dev = trace[i].dev
            /\ trace[j].ok
            /\ j > 1 /\ trace[j - 1].op = "retrieve" /\ trace[j - 1].dev = trace[i].dev
            /\ \A k \in (j + 1)..(i - 1) : trace[k].op = "write" /\ trace[k].dev = trace[i].dev

\* C14 witness: a device was connected, two records were retrieved from it, it
\* was disconnected, one record has been written and the next write is due.
C14_Witness ==
    /\ pc = "insert"
    /\ Len(attendanceData) = 2
    /\ recIdx = 2
    /\ trace[Len(trace)].op = "write"
    /\ \E i \in Calls("connect") : trace[i].dev = CurrentId /\ trace[i].ok
    /\ ~devices[CurrentId].isConnected

\* the device of the latest connect call before position i of the history
ConnectedDeviceAt(i) ==
    LET before == {j \in Calls("connect") : j < i}
    IN  IF before = {} THEN NoId
        ELSE trace[CHOOSE j \in before : \A k \in before : k <= j].dev

\* C15: the resolved devices are the registered ids in registration order when
\* deviceIds is absent and the caller's ids in the caller's order when it is
\* given; the devices are connected in resolved order; every write is of a
\* record of the device connected last, so that all writes of one device
\* precede the connect of the next; and the writes of one device follow the
\* order in which the terminal returned the punches (punch k is employee k's).
C15_ResolvedAndRetrievalOrder ==
    (isMultiDevice /\ pc # "idle") =>
        /\ error # ErrConfigNotFound =>
               devicesToSync = IF deviceIds.given THEN deviceIds.list ELSE RegisteredIds
        /\ Len(ConnectOrder) <= Len(devicesToSync)
        /\ ConnectOrder = SubSeq(devicesToSync, 1, Len(ConnectOrder))
        /\ \A i \in Calls("write") :
            /\ trace[i].dev = ConnectedDeviceAt(i)
            /\ trace[i].rec.location = trace[i].dev
        /\ \A i \in Calls("write") : \A j \in Calls("write") :
            (i < j /\ \A k \in i..j : trace[k].op = "write")
                => trace[i].rec.employeeNumber < trace[j].rec.employeeNumber

\* C15 witness: Sync was called with deviceIds = [d2, d1]; two records of d2
\* were written in retrieval order, then d1 was connected and a record of d1
\* was written, and the pass returned.
C15_Witness ==
    /\ isMultiDevice
    /\ pc = "returned"
    /\ deviceIds.given
    /\ deviceIds.list = <<"d2", "d1">>
    /\ ConnectOrder = <<"d2", "d1">>
    /\ Cardinality({i \in Calls("write") : trace[i].dev = "d2"}) = 2
    /\ \E i \in Calls("write") : trace[i].dev = "d1"

\* the cached device handles that are connected
ConnectedHandles == {id \in DOMAIN devices : devices[id].isConnected}

\* C16 as stated: during a multi-device pass at most one device handle is
\* connected at any moment, and when the connect of a device starts no other
\* device's handle is connected.
C16_AtMostOneConnected ==
    (isMultiDevice /\ pc # "idle" /\ ~Done) =>
        /\ Cardinality(ConnectedHandles) <= 1
        /\ pc = "devConnect" => ConnectedHandles \subseteq {CurrentId}

\* a step of testAllConnections: a call is counted and no Sync is started
TestStep == passNo' = passNo + 1 /\ pc' = pc

C17_TestStep ==
    TestStep =>
        /\ Len(testResults') = Len(deviceConfigs)
        /\ \A k \in 1..Len(deviceConfigs) :
            LET id == deviceConfigs[k]
                r == testResults'[k]
                wasConnected == id \in DOMAIN devices /\ devices[id].isConnected
            IN  /\ r.deviceId = id
                /\ r.success = (r.error = NoError)
                /\ (r.error = ErrConnect) = (id \in unreachable' /\ ~wasConnected)
                /\ r.error \in {NoError, ErrConnect, ErrDevDisconnect}
                /\ r.success => ~devices'[id].isConnected
                /\ r.error = ErrDevDisconnect => devices'[id].isConnected

InWindowDays(log, from, to) ==
    {k \in 1..Len(log) :
        /\ FormatDate(from) <= FormatDate(log[k].timestamp)
        /\ FormatDate(log[k].timestamp) <= FormatDate(to)}

\* C18: getAttendanceData keeps a record if and only if the calendar day of
\* its timestamp lies between the day of fromDate and the day of toDate, both
\* included, whatever the times of day of the record and of the two bounds;
\* the kept records are in the log's order and nothing else is returned.
C18_FilterByDateInclusive ==
    pc = "devDisconnect" =>
        /\ \A k \in 1..Len(rawLog) :
              (\E i \in 1..Len(attendanceData) :
                    /\ attendanceData[i].employeeNumber = rawLog[k].uid
                    /\ attendanceData[i].timeRecord = FormatDateTime(rawLog[k].timestamp))
              <=> k \in InWindowDays(rawLog, fromDate, toDate)
        /\ Len(attendanceData) = Cardinality(InWindowDays(rawLog, fromDate, toDate))

\* C18 witness: the window runs from the last instant of day 0 to the first
\* instant of day 1; a punch made at the first instant of day 0 (earlier than
\* fromDate) and one made at the last instant of day 1 (later than toDate)
\* are both kept.
C18_Witness ==
    /\ pc = "devDisconnect"
    /\ fromDate = TicksPerDay - 1
    /\ toDate = TicksPerDay
    /\ Len(rawLog) = 2
    /\ rawLog[1].timestamp = 0
    /\ rawLog[2].timestamp = 2 * TicksPerDay - 1
    /\ Len(attendanceData) = 2

\* error.message of a failed call of the history
MessageOf(e) ==
    CASE e.op = "connect" -> {ErrConnect}
      [] e.op = "retrieve" -> {ErrRetrieve, ErrDevNotConnected}
      [] e.op = "disconnect" -> {ErrDevDisconnect}
      [] e.op = "write" -> {ErrQuery, ErrDbNotConnected}
      [] e.op = "checkpoint" -> {ErrQuery, ErrDbNotConnected}
      [] e.op = "dbConnect" -> {ErrAttach}
      [] e.op = "dbDisconnect" -> {ErrDetach}

\* the failed call e of the history is an entry of the error list errs
Surfaced(e, errs) ==
    \E k \in 1..Len(errs) :
        /\ errs[k].error \in MessageOf(e)
        /\ e.op = "write" => errs[k].record = e.rec
        /\ (e.op # "write" /\ isMultiDevice) => errs[k].deviceId = e.dev

\* C19 as stated: when Sync has returned, every call of the pass that failed
\* (device connect, retrieval, device disconnect, record write, checkpoint
\* update, sink connect, sink disconnect) is an entry of the result's error
\* list; otherwise Sync has thrown.
C19_NoFailureDropped ==
    pc = "returned" =>
        \A i \in 1..Len(trace) : ~trace[i].ok => Surfaced(trace[i], PassResult.errors)

\* C20 as stated: a Sync without deviceIds never processes a disabled
\* endpoint, and a Sync that names a disabled endpoint's id resolves it
\* instead of failing.
C20_DisabledExcludedButAddressable ==
    (isMultiDevice /\ pc # "idle") =>
        \A id \in DisabledIds :
            /\ ~deviceIds.given => id \notin Range(devicesToSync)
            /\ (deviceIds.given /\ id \in Range(deviceIds.list)) =>
                   /\ error # ErrConfigNotFound
                   /\ id \in Range(devicesToSync)

\* C21, the call: getDevice(id) on an id whose adapter is cached returns that
\* object and constructs nothing; on a configured id without cached adapter it
\* constructs one object, caches it and returns it, the other cache entries
\* staying as they are; on an id without configuration entry it throws.
C21_GetStep ==
    \A id \in AllIds :
        GetDevice(id) =>
            IF id \in DOMAIN handle
            THEN /\ ~lastCall'.threw
                 /\ lastCall'.handles = <<handle[id].serial>>
                 /\ handle' = handle
                 /\ created' = created
                 /\ devices' = devices
            ELSE IF id \in Range(deviceConfigs)
            THEN /\ ~lastCall'.threw
                 /\ created' = created + 1
                 /\ lastCall'.handles = <<created'>>
                 /\ handle' = (id :> [serial |-> created', config |-> configAddr[id]]) @@ handle
                 /\ devices' = (id :> NewAdapter) @@ devices
            ELSE /\ lastCall'.threw
                 /\ handle' = handle
                 /\ created' = created
                 /\ devices' = devices

\* C21, the cache: the cache holds one adapter object per cached id, distinct
\* ids hold distinct objects, a cached id is a configured one, and all the
\* getDevice(id) calls made since the entry of id was last dropped (by
\* removeDevice or disconnectAll) returned one and the same object, the cached one.
C21_OneHandlePerId ==
    /\ DOMAIN handle = DOMAIN devices
    /\ DOMAIN handle \subseteq Range(deviceConfigs)
    /\ \A id \in DOMAIN handle : handle[id].serial \in 1..created
    /\ \A a \in DOMAIN handle : \A b \in DOMAIN handle :
           a # b => handle[a].serial # handle[b].serial
    /\ \A id \in AllIds :
        /\ Cardinality(got[id]) <= 1
        /\ got[id] = IF id \in DOMAIN handle THEN {handle[id].serial} ELSE {}

DisconnectsOf(h, id) == {i \in 1..Len(h) : h[i].op = "disconnect" /\ h[i].dev = id}

\* C22, the call: disconnectAll calls disconnect exactly once on every cached
\* adapter, whichever of these calls fail (the failing ones are reported as
\* failed, the others as resolved), does not throw, leaves the cache empty and
\* leaves the configuration entries as they are.
C22_DisconnectAllStep ==
    \A failing \in SUBSET AllIds :
        DisconnectAll(failing) =>
            /\ \A id \in DOMAIN devices :
                /\ Cardinality(DisconnectsOf(trace', id)) = 1
                /\ \A i \in DisconnectsOf(trace', id) : trace'[i].ok = (id \notin failing)
            /\ Len(trace') = Cardinality(DOMAIN devices)
            /\ ~lastCall'.threw
            /\ devices' = <<>>
            /\ handle' = <<>>
            /\ deviceConfigs' = deviceConfigs
            /\ configAddr' = configAddr

\* C22, the next call: a getDevice that follows a disconnectAll, for a
\* configured id, returns an adapter object constructed by that very call.
C22_NextGetStep ==
    \A id \in AllIds :
        (GetDevice(id) /\ lastCall.op = "disconnectAll" /\ id \in Range(deviceConfigs)) =>
            /\ created' = created + 1
            /\ lastCall'.handles = <<created'>>
            /\ devices'[id] = NewAdapter

C23_RegisterStep ==
    \A cfg \in ConfigInputs :
        RegisterDevice(cfg) =>
            /\ handle' = handle
            /\ devices' = devices
            /\ created' = created
            /\ IF cfg.id = NoId
               THEN /\ lastCall'.threw
                    /\ deviceConfigs' = deviceConfigs
                    /\ configAddr' = configAddr
               ELSE /\ ~lastCall'.threw
                    /\ deviceConfigs' = IF cfg.id \in Range(deviceConfigs) THEN deviceConfigs
                                        ELSE Append(deviceConfigs, cfg.id)
                    /\ configAddr'[cfg.id] = cfg.ip
                    /\ \A id \in Range(deviceConfigs) \ {cfg.id} : configAddr'[id] = configAddr[id]

\* C23, the later call: a getDevice(id) that follows a registerDevice, for an
\* id whose adapter is cached, returns that adapter, which still carries the
\* configuration it was constructed with.
C23_LaterGetStep ==
    \A id \in AllIds :
        (GetDevice(id) /\ lastCall.op = "registerDevice" /\ id \in DOMAIN handle) =>
            /\ lastCall'.handles = <<handle[id].serial>>
            /\ handle' = handle

\* C23, the entries: there is one configuration entry per registered id.
C23_OneEntryPerId ==
    /\ Len(deviceConfigs) = Cardinality(Range(deviceConfigs))
    /\ DOMAIN configAddr = Range(deviceConfigs)

C23_RegisterLeavesCache == [][C23_RegisterStep /\ C23_LaterGetStep]_vars /\ []C23_OneEntryPerId

\* C23 witness: registerDevice has just replaced the configuration of d1 (the
\* entry now has address 2) while d1's adapter, constructed with address 1 and
\* connected, is still the cached one; d1 is still the first of two entries.
C23_Witness ==
    /\ lastCall.op = "registerDevice"
    /\ lastCall.id = "d1"
    /\ deviceConfigs = <<"d1", "d2">>
    /\ configAddr["d1"] = 2
    /\ "d1" \in DOMAIN handle
    /\ handle["d1"].config = 1
    /\ devices["d1"].isConnected

\* C24: getAllDevices does not throw and returns one adapter per configuration
\* entry, the k-th one being the adapter of the k-th entry in registration
\* order; an adapter that was cached is returned as it is, and for every entry
\* without cached adapter one new object is constructed and cached.
C24_GetAllStep ==
    GetAllDevices =>
        /\ ~lastCall'.threw
        /\ Len(lastCall'.handles) = Len(deviceConfigs)
        /\ \A k \in 1..Len(deviceConfigs) :
               lastCall'.handles[k] = handle'[deviceConfigs[k]].serial
        /\ \A j \in 1..Len(lastCall'.handles) : \A k \in 1..Len(lastCall'.handles) :
               j # k => lastCall'.handles[j] # lastCall'.handles[k]
        /\ DOMAIN handle' = DOMAIN handle \cup Range(deviceConfigs)
        /\ \A id \in DOMAIN handle : handle'[id] = handle[id] /\ devices'[id] = devices[id]
        /\ \A id \in Range(deviceConfigs) \ DOMAIN handle :
               /\ handle'[id].serial > created
               /\ handle'[id].config = configAddr[id]
               /\ devices'[id] = NewAdapter
        /\ created' = created + Cardinality(Range(deviceConfigs) \ DOMAIN handle)
        /\ deviceConfigs' = deviceConfigs

DeviceOver == pc = "devThrown" \/ (pc = "insert" /\ recIdx > Len(attendanceData))

\* the retrieval of the current device completed: the last retrieval of the
\* history resolved and no device was connected since
RetrievalCompleted ==
    /\ LastRetrieve > 0
    /\ trace[LastRetrieve].ok
    /\ \A i \in Calls("connect") : i < LastRetrieve

\* C25 as stated: when syncDeviceData is over for a device whose retrieval
\* completed, the write attempts made for it are one per retrieved record, in
\* retrieval order, none missing and none repeated, and insertedRecords plus
\* the number of write-error entries equals totalRecords.
C25_EveryRecordWrittenOnce ==
    (DeviceOver /\ RetrievalCompleted) =>
        /\ [i \in 1..Len(WritesSinceRetrieve) |-> WritesSinceRetrieve[i].rec] = attendanceData
        /\ devStats.totalRecords = Len(attendanceData)
        /\ devStats.insertedRecords
             + Cardinality({k \in 1..Len(devStats.errors) :
                               devStats.errors[k].type = "record_error"})
           = devStats.totalRecords

\* the latest connect or retrieval of the pass failed
LastContactFailed ==
    LET c == Calls("connect") \cup Calls("retrieve")
    IN  c # {} /\ ~trace[CHOOSE i \in c : \A j \in c : j <= i].ok

\* syncDeviceData has thrown to its caller after a connect or a retrieval
\* failed: to the per-device catch in multi-device mode, to the catch of
\* syncSingleDevice in single-device mode
ThrownToCaller ==
    /\ pc = IF isMultiDevice THEN "devThrown" ELSE "catch"
    /\ LastContactFailed

\* C26: when syncDeviceData has thrown to its caller after a connect or a
\* retrieval failed, the last two calls of the pass are the connect or retrieval of
\* the current device that failed and, after it, a disconnect of that device,
\* whatever the outcome of that disconnect; the error in flight is the one of
\* the failed connect or retrieval; and no record was written since the
\* device's connect.
C26_DisconnectThenOriginalError ==
    ThrownToCaller =>
        /\ Len(trace) >= 2
        /\ trace[Len(trace)].op = "disconnect"
        /\ trace[Len(trace)].dev = CurrentId
        /\ trace[Len(trace) - 1].op \in {"connect", "retrieve"}
        /\ trace[Len(trace) - 1].dev = CurrentId
        /\ ~trace[Len(trace) - 1].ok
        /\ error \in MessageOf(trace[Len(trace) - 1])
        /\ \A i \in Calls("write") : \E j \in Calls("connect") : i < j
        /\ devStats.insertedRecords = 0

\* C26 witness: in a multi-device pass the retrieval of a connected device
\* failed, the disconnect attempted by the catch failed too, and the error
\* that reached the per-device catch is the retrieval's.
C26_Witness ==
    /\ isMultiDevice
    /\ pc = "devThrown"
    /\ error = ErrRetrieve
    /\ trace[Len(trace)].op = "disconnect"
    /\ ~trace[Len(trace)].ok
    /\ trace[Len(trace) - 1].op = "retrieve"
    /\ devices[CurrentId].isConnected

\* C27 as stated: testDeviceConnection(id) does not throw and yields one entry
\* for id; the entry is a success exactly when id has a configuration entry
\* and the connect and the disconnect of the test both resolved; and when it
\* is over the adapter of id is not connected, whether the test succeeded or
\* failed.
C27_TestLeavesDeviceDisconnected ==
    lastCall.op = "testDeviceConnection" =>
        /\ ~lastCall.threw
        /\ Len(testResults) = 1
        /\ testResults[1].deviceId = lastCall.id
        /\ testResults[1].success =
               (/\ lastCall.id \in Range(deviceConfigs)
                /\ Len(trace) = 2
                /\ \A i \in 1..Len(trace) : trace[i].ok)
        /\ lastCall.id \in DOMAIN devices => ~devices[lastCall.id].isConnected

\* the devices of the pass whose own sync failed with a connect or a
\* retrieval error
FailedDevices ==
    {id \in Range(devicesToSync) :
        \E k \in 1..Len(stats.errors) :
            /\ stats.errors[k].type = "device_sync_error"
            /\ stats.errors[k].deviceId = id
            /\ stats.errors[k].error \in {ErrConnect, ErrRetrieve, ErrDevNotConnected}}

\* C29 as stated: when a multi-device pass that inserted at least one record
\* has returned or thrown, the checkpoint update was made for every device
\* whose own sync failed in the pass, and every checkpoint the pass wrote, the
\* one of a failed device included, carries the one timestamp of the pass.
C29_FailedDeviceCheckpointed ==
    (isMultiDevice /\ PassEnded /\ Resolved /\ stats.insertedRecords > 0) =>
        /\ \A id \in FailedDevices : \E i \in Calls("checkpoint") : trace[i].dev = id
        /\ \A i \in Calls("checkpoint") : \A j \in Calls("checkpoint") :
               (trace[i].ok /\ trace[j].ok) =>
                   /\ lastSync[trace[i].dev] = lastSync[trace[j].dev]
                   /\ lastSync[trace[i].dev] \in 1..passNo

\* the disconnects of the history that failed right after a retrieval resolved
FailedAfterRetrieval ==
    {i \in FailedCalls("disconnect") :
        i > 1 /\ trace[i - 1].op = "retrieve" /\ trace[i - 1].ok /\ trace[i - 1].dev = trace[i].dev}

\* C30, the history: in a multi-device pass, when the disconnect of a device
\* failed right after its retrieval resolved, the next call is the cleanup's
\* disconnect of that device, no record is written before another connect is
\* made (none of the retrieved records is written), and the error is not the
\* one the pass throws.
C30_NoWriteAfterFailedDisconnect ==
    isMultiDevice =>
        /\ \A i \in FailedAfterRetrieval :
            /\ i < Len(trace) =>
                   trace[i + 1].op = "disconnect" /\ trace[i + 1].dev = trace[i].dev
            /\ \A j \in Calls("write") : j > i => \E k \in Calls("connect") : i < k /\ k < j
        /\ pc \in {"catch", "thrown"} => error # ErrDevDisconnect

\* C30, the handler: the per-device catch of a failed disconnect reports the
\* device with totalRecords = 0, insertedRecords = 0 and one error entry, adds
\* one entry tagged with the device id to the pass-level error list, leaves the
\* pass-level totals as they are, and the loop goes on with the next device.
C30_HandlerStep ==
    (pc = "devThrown" /\ error = ErrDevDisconnect /\ pc' # "devThrown") =>
        /\ stats'.deviceStats[CurrentId] =
               [totalRecords |-> 0, insertedRecords |-> 0,
                errors |-> <<PlainError(ErrDevDisconnect)>>]
        /\ stats'.errors = Append(stats.errors, DeviceSyncErrorEntry(CurrentId, ErrDevDisconnect))
        /\ stats'.totalRecords = stats.totalRecords
        /\ stats'.insertedRecords = stats.insertedRecords
        /\ pc' = "loop"
        /\ devIdx' = devIdx + 1

C30_FailedDisconnectDropsRecords ==
    [][C30_HandlerStep]_vars /\ []C30_NoWriteAfterFailedDisconnect

\* C30 witness: of two devices the first returned two records and its
\* disconnect failed; the per-device catch has reported it with 0/0 and one
\* error, nothing was written, and the loop stands at the second device.
C30_Witness ==
    /\ isMultiDevice
    /\ pc = "loop"
    /\ devicesToSync = <<"d1", "d2">>
    /\ devIdx = 2
    /\ Len(attendanceData) = 2
    /\ FailedAfterRetrieval # {}
    /\ Calls("write") = {}
    /\ stats.deviceStats["d1"].totalRecords = 0
    /\ stats.deviceStats["d1"].insertedRecords = 0
    /\ Len(stats.deviceStats["d1"].errors) = 1
    /\ stats.totalRecords = 0

\* the calls of the history that use the sink
SinkUses == Calls("write") \cup Calls("checkpoint")

\* C28, the history: two Sync calls interleaved on one service, every driver
\* call succeeding.  No connect and no disconnect fails (a call on a handle or
\* sink the other call has connected or closed already resolves at once).  A
\* retrieval that failed comes right after the call's own successful connect
\* of that device, and a write or checkpoint update that failed comes after
\* the call's own successful connect of the sink and before its own
\* disconnect of it: what failed was used between the call's own connect and
\* its own disconnect, and the error is the adapter's "not connected".
C28_FailuresBetweenConnectAndDisconnect ==
    /\ FailedCalls("connect") \cup FailedCalls("disconnect") = {}
    /\ FailedCalls("dbConnect") \cup FailedCalls("dbDisconnect") = {}
    /\ \A i \in FailedCalls("retrieve") :
           i > 1 /\ trace[i - 1] = Event("connect", trace[i].dev, TRUE)
    /\ \A i \in {j \in SinkUses : ~trace[j].ok} :
           /\ \E k \in Calls("dbConnect") : k < i
           /\ \A k \in Calls("dbDisconnect") : i < k
    /\ pc = "devCatch" => error = ErrDevNotConnected

\* C28, the failing step: the retrieval fails on a handle that is not
\* connected, the write on a sink that is closed, though the running call
\* has connected them and not disconnected them since.
C28_FailingStep ==
    /\ (DeviceGetAttendance /\ pc' = "devCatch") => ~ZkCanRetrieve(devices[CurrentId])
    /\ (InsertTimeRecord /\ ~trace'[Len(trace')].ok) => ~connection

C28_InterleavedPassesBreakEachOther ==
    [][C28_FailingStep]_vars /\ []C28_FailuresBetweenConnectAndDisconnect

\* C28 witness: two calls have been started; the running one connected a
\* device and its retrieval failed, and a write of it failed; the history of
\* the other call holds a successful disconnect of that device and a
\* successful disconnect of the sink.
C28_Witness ==
    /\ passNo = 2
    /\ suspended.pc = "returned"
    /\ \E i \in FailedCalls("retrieve") :
           \E j \in 1..Len(suspended.trace) :
               suspended.trace[j] = Event("disconnect", trace[i].dev, TRUE)
    /\ FailedCalls("write") # {}
    /\ \E j \in 1..Len(suspended.trace) : suspended.trace[j] = Event("dbDisconnect", NoId, TRUE)

\* the calls of the history made on device id
DevCalls(op, id) == {i \in Calls(op) : trace[i].dev = id}
NoDeviceCallFailed ==
    FailedCalls("connect") \cup FailedCalls("retrieve") \cup FailedCalls("disconnect") = {}
\* the ids the running call was asked for
Requested == IF deviceIds.given THEN deviceIds.list ELSE deviceConfigs
LastConnectOf(id) ==
    IF DevCalls("connect", id) = {} THEN 0
    ELSE CHOOSE i \in DevCalls("connect", id) : \A j \in DevCalls("connect", id) : j <= i

\* C31: in a multi-device pass that returned with no device call failing, a
\* device whose id is named k times in deviceIds was connected, retrieved and
\* disconnected k times, each of its records was submitted at most k times
\* (k times when every retrieval returned it), the pass-level totalRecords
\* counts every submission, and the per-device map holds one entry per id,
\* the result of the id's last occurrence.
C31_RepeatedIdSyncedEachTime ==
    (isMultiDevice /\ pc = "returned" /\ NoDeviceCallFailed) =>
        /\ DOMAIN stats.deviceStats = Range(Requested)
        /\ stats.totalRecords = Cardinality(Calls("write"))
        /\ \A id \in Range(Requested) :
            LET k == Occurrences(Requested, id)
                last == {i \in DevCalls("write", id) : i > LastConnectOf(id)}
            IN  /\ Cardinality(DevCalls("connect", id)) = k
                /\ Cardinality(DevCalls("retrieve", id)) = k
                /\ Cardinality(DevCalls("disconnect", id)) = k
                /\ \A i \in DevCalls("write", id) :
                       Cardinality({j \in DevCalls("write", id) : trace[j].rec = trace[i].rec}) <= k
                /\ stats.deviceStats[id].totalRecords = Cardinality(last)
                /\ stats.deviceStats[id].insertedRecords =
                       Cardinality({i \in last : trace[i].ok})

\* C31 witness: deviceIds named d1 twice; the pass returned after two
\* connects, retrievals and disconnects of d1, both retrievals returned the
\* same two records, each was submitted twice, the pass counts four records
\* and the one entry of d1 counts two.
C31_Witness ==
    /\ isMultiDevice
    /\ pc = "returned"
    /\ NoDeviceCallFailed
    /\ deviceIds = [given |-> TRUE, list |-> <<"d1", "d1">>]
    /\ Cardinality(DevCalls("connect", "d1")) = 2
    /\ Cardinality(DevCalls("write", "d1")) = 4
    /\ \A i \in DevCalls("write", "d1") :
           Cardinality({j \in DevCalls("write", "d1") : trace[j].rec = trace[i].rec}) = 2
    /\ stats.totalRecords = 4
    /\ DOMAIN stats.deviceStats = {"d1"}
    /\ stats.deviceStats["d1"].totalRecords = 2

\* the registered ids whose type the factory has no adapter for
Unsupported == {id \in Range(deviceConfigs) : ~factoryCreates(configType[id])}

\* C33, Get and GetAll: getDevice of an id of an unsupported type throws and
\* leaves the cache as it is; getAllDevices throws when such an id is
\* registered, and no adapter is ever cached for it.
C33_GetStep ==
    /\ \A id \in AllIds :
           (GetDeviceCall(id) /\ id \in Unsupported) =>
               lastCall' = Call("getDevice", id, <<>>, TRUE) /\ devices' = devices
    /\ (GetAllDevicesCall /\ Unsupported # {}) =>
           lastCall' = Call("getAllDevices", NoId, <<>>, TRUE)

\* C33, Sync: with such an id registered, a Sync without deviceIds goes to its
\* catch with the factory's error and throws it; the sink is never opened,
\* no device is connected or read and nothing is written.
C33_SyncThrowsAtOnce ==
    /\ DOMAIN devices \cap Unsupported = {}
    /\ ~connection
    /\ pc # "idle" =>
           /\ pc \in {"catch", "thrown"}
           /\ error = ErrUnsupportedType
           /\ Calls("dbConnect") \cup Calls("connect") = {}
           /\ Calls("retrieve") \cup Calls("write") = {}

\* C33, TestAllConnections: one entry per registered id, in registration
\* order; the entry of an id of an unsupported type is a failure carrying the
\* factory's error, and the entry of any other id is a success as long as no
\* driver call has failed.
C33_TestEntries ==
    testResults # <<>> =>
        /\ Len(testResults) = Len(deviceConfigs)
        /\ \A k \in 1..Len(deviceConfigs) :
            /\ testResults[k].deviceId = deviceConfigs[k]
            /\ deviceConfigs[k] \in Unsupported =>
                   ~testResults[k].success /\ testResults[k].error = ErrUnsupportedType
            /\ (deviceConfigs[k] \notin Unsupported /\ faults = 0) =>
                   testResults[k].success

C33_UnsupportedTypeFailsGetAndSync ==
    [][C33_GetStep]_vars /\ [](C33_SyncThrowsAtOnce /\ C33_TestEntries)

\* C33 witness: d2 is of the unsupported type.  A Sync without deviceIds has
\* thrown the factory's error with no call on the sink or a device, the test
\* of all connections has then returned success for d1 and failure for d2,
\* and getDevice(d2) has thrown.
C33_Witness ==
    /\ Unsupported = {"d2"}
    /\ pc = "thrown"
    /\ deviceIds = NullIds
    /\ error = ErrUnsupportedType
    /\ Calls("connect") = {}
    /\ Len(testResults) = 2
    /\ testResults[1].deviceId = "d1" /\ testResults[1].success
    /\ testResults[2].deviceId = "d2" /\ ~testResults[2].success
    /\ lastCall = Call("getDevice", "d2", <<>>, TRUE)
    /\ "d2" \notin DOMAIN devices

RECURSIVE SumErrors(_, _)
SumErrors(ds, S) ==
    IF S = {} THEN 0
    ELSE LET id == CHOOSE x \in S : TRUE
         IN  Len(ds[id].errors) + SumErrors(ds, S \ {id})

\* C34, between two devices and at the return: in a multi-device pass over
\* devices with pairwise distinct ids, the pass-level error list is as long as
\* the per-device error lists together.
C34_ErrorListsAgree ==
    (isMultiDevice /\ Distinct(devicesToSync)
        /\ pc \in {"loop", "checkpoint", "dbDisconnect", "returned"}) =>
        Len(stats.errors) = SumErrors(stats.deviceStats, DOMAIN stats.deviceStats)

\* C34, the two ways a device ends: a failed device adds one entry to the
\* pass-level list and has one entry in its own; a completed device adds its
\* write-error entries, one per write that failed, to the pass-level list and
\* keeps them as its own.
C34_DeviceEndStep ==
    /\ (isMultiDevice /\ DeviceSyncError) =>
           /\ Len(stats'.errors) = Len(stats.errors) + 1
           /\ Len(stats'.deviceStats[CurrentId].errors) = 1
    /\ (isMultiDevice /\ SyncDeviceDataReturn) =>
           /\ stats'.errors = stats.errors \o devStats.errors
           /\ stats'.deviceStats[CurrentId].errors = devStats.errors
           /\ Len(devStats.errors) =
                  Cardinality({i \in FailedCalls("write") : i > LastConnectOf(CurrentId)})

C34_PassErrorsAreDeviceErrors == [][C34_DeviceEndStep]_vars /\ []C34_ErrorListsAgree

\* C34 witness: a pass over d1 and d2 returned; d1 failed and d2 completed
\* with one write that failed: two entries at pass level, one in each device's
\* own list.
C34_Witness ==
    /\ isMultiDevice
    /\ pc = "returned"
    /\ devicesToSync = <<"d1", "d2">>
    /\ FailedCalls("connect") # {}
    /\ Cardinality(FailedCalls("write")) = 1
    /\ Len(stats.errors) = 2
    /\ Len(stats.deviceStats["d1"].errors) = 1
    /\ Len(stats.deviceStats["d2"].errors) = 1
    /\ stats.deviceStats["d2"].totalRecords > 0

\* C35, the call: removeDevice(id) does not throw and returns true exactly
\* when id had a configuration entry; afterwards id has neither entry nor
\* cached adapter, hasDevice(id) is false and getDevice(id) would throw; a
\* cached adapter of id got one disconnect, resolved or failed, and no other
\* call was made; every other id keeps its entry, its place in the
\* registration order, its adapter and the state of that adapter.
C35_RemoveStep ==
    \A id \in AllIds :
        RemoveDevice(id) =>
            /\ lastCall' = CallReturning("removeDevice", id, hasDevice(deviceConfigs, id))
            /\ ~hasDevice(deviceConfigs', id)
            /\ id \notin DOMAIN devices' \cup DOMAIN handle' \cup DOMAIN configAddr'
            /\ ~getDevice(devices', deviceConfigs', id).found
            /\ trace' = IF id \in DOMAIN devices
                        THEN <<Event("disconnect", id, trace'[1].ok)>> ELSE <<>>
            /\ deviceConfigs' = SelectSeqBy(deviceConfigs, Range(deviceConfigs) \ {id})
            /\ DOMAIN devices' = DOMAIN devices \ {id}
            /\ DOMAIN handle' = DOMAIN handle \ {id}
            /\ \A o \in Range(deviceConfigs') : configAddr'[o] = configAddr[o]
            /\ \A o \in DOMAIN devices' : devices'[o] = devices[o] /\ handle'[o] = handle[o]

\* C35, afterwards: the getDevice(id) that follows a removeDevice(id) throws.
C35_GetAfterRemoveStep ==
    \A id \in AllIds :
        (lastCall.op = "removeDevice" /\ lastCall.id = id /\ GetDevice(id)) =>
            lastCall' = Call("getDevice", id, <<>>, TRUE)

C35_RemoveDropsEntryAndHandle == [][C35_RemoveStep /\ C35_GetAfterRemoveStep]_vars

\* C35 witness: d1 and d2 were registered and both adapters connected;
\* removeDevice(d1) has returned true though the disconnect of d1 failed; d2
\* is registered, cached and connected as before.
C35_Witness ==
    /\ lastCall = CallReturning("removeDevice", "d1", TRUE)
    /\ trace = <<Event("disconnect", "d1", FALSE)>>
    /\ deviceConfigs = <<"d2">>
    /\ DOMAIN devices = {"d2"}
    /\ devices["d2"].isConnected
    /\ "d1" \in orphans

\* the entries of the devices array whose id is id
EntriesWithId(id) ==
    {k \in 1..Len(configFile.devices) : configFile.devices[k].id = id}
ErrorsOf(res) == Range(res.errors)

\* C36: a result validateConfig returns has valid = false exactly when its
\* error list is not empty.  For a devices array: every id that occurs in more
\* than one entry has an error, one duplicate error naming it when it is a
\* non-empty value, and a missing-id error for each of its entries when it is
\* empty or absent; total is the number of entries, disabled the number of
\* entries whose enabled is exactly false, enabled the rest.  Without a
\* devices array the three counters are 0.
C36_ValidationSound ==
    (validation.done /\ ~validation.threw) =>
        /\ validation.valid <=> validation.errors = <<>>
        /\ validation.devices.total = validation.devices.enabled + validation.devices.disabled
        /\ validation.devices.total = Len(configFile.devices)
        /\ validation.devices.disabled =
               Cardinality({k \in 1..Len(configFile.devices) :
                               configFile.devices[k].enabled = "false"})
        /\ \A id \in IdValues :
               Cardinality(EntriesWithId(id)) > 1 =>
                   IF truthy(id)
                   THEN Cardinality({i \in 1..Len(validation.errors) :
                                        validation.errors[i] = DuplicateId(id)}) = 1
                   ELSE \A k \in EntriesWithId(id) : MissingId(k) \in ErrorsOf(validation)

\* C36 witness: two entries with the id "a", the first with enabled absent and
\* the second with enabled false, both with an address: one error, the
\* duplicate, valid = false, total 2 = enabled 1 + disabled 1.
C36_Witness ==
    /\ validation.done
    /\ ~validation.threw
    /\ Len(configFile.devices) = 2
    /\ configFile.devices[1].enabled = "absent"
    /\ configFile.devices[2].enabled = "false"
    /\ validation.errors = <<DuplicateId([t |-> "str", v |-> "a"])>>
    /\ ~validation.valid
    /\ validation.devices = [total |-> 2, enabled |-> 1, disabled |-> 1]

\* the call on the driver that the latest call on the sink made, if any
DriverCallsOf(h) == SubSeq(h, 2, Len(h))

\* C37: every call on a FirebirdAdapter.  connect on an open adapter resolves
\* with no call on the driver; on a closed one it attaches, and the adapter is
\* open afterwards exactly when the attach succeeded.  disconnect on a closed
\* adapter resolves with no call on the driver; on an open one it detaches,
\* and the adapter is closed afterwards exactly when the detach succeeded.
\* insertTimeRecord, updateBiometricDevice and executeQuery leave the
\* connection as it is; on a closed adapter they reject with 'Database not
\* connected', issue no query and change nothing.  So the adapter is open
\* exactly from a successful attach to the next successful detach.
C37_SinkStep ==
    LET call == trace'[1]
        driver == DriverCallsOf(trace')
    IN  /\ SinkConnect =>
               IF connection
               THEN call.ok /\ driver = <<>> /\ connection'
               ELSE driver = <<Event("attach", NoId, call.ok)>> /\ (connection' <=> call.ok)
        /\ SinkDisconnect =>
               IF ~connection
               THEN call.ok /\ driver = <<>> /\ ~connection'
               ELSE driver = <<Event("detach", NoId, call.ok)>> /\ (connection' <=> ~call.ok)
        /\ (SinkInsertTimeRecord \/ SinkUpdateBiometricDevice
                \/ SinkExecuteQuery("query", NoId, 0)) =>
               /\ connection' = connection
               /\ IF ~connection
                  THEN /\ ~call.ok
                       /\ error' = ErrDbNotConnected
                       /\ driver = <<>>
                       /\ lastSync' = lastSync
                  ELSE driver = <<Event("query", NoId, call.ok)>>

C37_SinkOpenFromAttachToDetach == [][C37_SinkStep]_vars

\* C37 witness: the adapter was opened, a checkpoint update went through, and
\* a disconnect whose detach failed has left the adapter open.
C37_Witness ==
    /\ connection
    /\ trace = <<Event("dbDisconnect", NoId, FALSE), Event("detach", NoId, FALSE)>>
    /\ error = ErrDetach
    /\ lastSync["d1"] > 0

\* C38: every call on a ZKTecoAdapter.  connect on a connected adapter
\* resolves without a call on zklib; on a disconnected one it calls zklib's
\* connect, and isConnected is true afterwards exactly when that succeeded.
\* disconnect on a disconnected adapter resolves without a call on zklib; on a
\* connected one it calls zklib's disconnect, and isConnected is false
\* afterwards exactly when that succeeded.  getAttendanceData and
\* getDeviceInfo leave isConnected as it is; getAttendanceData on a
\* disconnected adapter rejects with 'Device not connected' without a call on
\* zklib; getDeviceInfo resolves with the configured id, connected or not.
\* A connected adapter always holds its zklib object.
C38_AdapterStepOf(id) ==
    LET a == devices[id]
        b == devices'[id]
        call == trace'[1]
        driver == DriverCallsOf(trace')
    IN  /\ ZkConnectCall(id) =>
               IF a.isConnected
               THEN call.ok /\ driver = <<>> /\ b.isConnected
               ELSE /\ driver = <<Event("zkConnect", NoId, call.ok)>>
                    /\ b.isConnected <=> call.ok
        /\ ZkDisconnectCall(id) =>
               IF ~a.isConnected
               THEN call.ok /\ driver = <<>> /\ ~b.isConnected
               ELSE /\ driver = <<Event("zkDisconnect", NoId, call.ok)>>
                    /\ b.isConnected <=> ~call.ok
        /\ ZkGetAttendanceDataCall(id) =>
               /\ b = a
               /\ IF ~a.isConnected
                  THEN ~call.ok /\ error' = ErrDevNotConnected /\ driver = <<>>
                  ELSE driver = <<Event("zkGetAttendance", NoId, call.ok)>>
        /\ ZkGetDeviceInfoCall(id) =>
               b = a /\ call.ok /\ call.dev = id /\ driver = <<>>
        /\ (id \in DOMAIN devices') => (b.isConnected => b.device)

C38_AdapterStep == \A id \in Range(RegisteredIds) : C38_AdapterStepOf(id)

C38_ConnectedFromConnectToDisconnect == [][C38_AdapterStep]_vars

\* C38 witness: getDeviceInfo has resolved with the configured id on an
\* adapter that is disconnected after a failed connect, which left the zklib
\* object in place.
C38_Witness ==
    /\ DOMAIN devices = {"d2"}
    /\ ~devices["d2"].isConnected /\ devices["d2"].device
    /\ trace = <<Event("deviceInfo", "d2", TRUE)>>
    /\ faults > 0

====
